---- MODULE Spec2Model ----
(***************************************************************************)
(* A model of the storage core of JOJIAI-memory: the flock-based FileLock, *)
(* atomic_write, the JSON write-ahead log (WriteAheadLog), the MemoryAgent *)
(* store operations and BackupManager.recover_from_wal.                    *)
(*                                                                         *)
(* Every contender (a thread or a process) is a member of Procs.  op[p] is *)
(* the operation p is executing, pc[p] its position inside it.  A file     *)
(* system object is an inode number; 0 stands for "no file" / None.        *)
(***************************************************************************)
EXTENDS Integers, Sequences, FiniteSets, TLC

VARIABLES
    pc,         \* pc[p]: position of contender p inside its operation
    op,         \* op[p]: the operation p is executing
    cur,        \* cur[p]: FileLock.lock_file of the FileLock object p uses
    lock_fd,    \* lock_fd[p]: inode behind FileLock.lock_fd, 0 for None
    lockFile,   \* lockFile[l]: inode linked at lock path l, 0 when absent
    flockBy,    \* flockBy[l][i]: contender whose descriptor holds flock on i
    awIno,      \* awIno[i]: content (sequence of chunks) of data inode i
    awTarget,   \* inode linked at the target path of atomic_write, 0: absent
    awTmp,      \* awTmp[p]: inode linked at p's temporary path, 0: none
    awFd,       \* awFd[p]: inode a reader p has open, 0: none
    awBuf,      \* awBuf[p]: the chunks reader p has read so far
    walFile,    \* the WAL file: [kind: absent | corrupt | list, entries]
    now,        \* the clock time.time() reads
    entry,      \* entry[p]: the WALEntry p's append built (to_dict form)
    wal_data,   \* wal_data[p]: the list p's operation holds in memory
    ret,        \* ret[p]: the last WAL call of p, its argument and outcome
    appended,   \* the entries a tracking caller appended, in order (history)
    dataFile,   \* memory_dialogues_v2.json: [kind: absent | list | object, items]
    dialogues,  \* dialogues[p]: the list p's store_dialogue holds in memory
    retry,      \* retry[p]: the locals of the with_retry wrapper p is inside
    waited,     \* waited[p]: the 0.1 s sleeps of p's current acquire()
    timeout,    \* timeout[p]: FileLock.timeout of p's lock object, in sleeps
    held,       \* held[p]: how long p has held its lock, in sleeps
    targetDir,  \* targetDir[f]: the file f of a recovery target directory
    dataDir,    \* dataDir[f]: content of file f of the data directory, 0: absent
    backupDir,  \* backupDir[n]: the snapshot directory named n
    freshDir,   \* freshDir[f]: content of file f of a restore target, 0: absent
    config,     \* MemoryAgent.config['max_dialogues']
    stop_flush, \* WriteAheadLog._stop_flush is set
    stop_backup, \* BackupManager._stop_backup is set
    fdTable,    \* fdTable[d]: owner, inode and flock of file descriptor d
    lockDesc,   \* lockDesc[p]: the descriptor in FileLock.lock_fd, 0 for None
    pidIn       \* pidIn[i]: the PID written in lock inode i, 0 when empty

lockVars == <<cur, lock_fd, lockFile, flockBy>>

awVars == <<awIno, awTarget, awTmp, awFd, awBuf>>

walVars == <<walFile, now, entry, wal_data, ret, appended>>

storeVars == <<dataFile, dialogues>>

timedVars == <<waited, timeout, held>>

backupVars == <<dataDir, backupDir, freshDir>>

fdVars == <<fdTable, lockDesc, pidIn>>

restVars == <<backupVars, config, stop_flush, stop_backup, fdVars>>

otherVars == <<retry, timedVars, targetDir, restVars>>

vars == <<pc, op, lockVars, awVars, walVars, storeVars, otherVars>>

\* What the steps of FileLock leave alone.
notLock == <<op, awVars, walVars, storeVars, otherVars>>

\* What the steps of atomic_write and of a plain reader leave alone.
notAw == <<lockVars, walVars, storeVars, otherVars>>

\* What the steps of WriteAheadLog leave alone (its lock aside).
notWal == <<awVars, storeVars, otherVars>>

(***************************************************************************)
(* Bounds                                                                  *)
(***************************************************************************)
NProcs == 3

Procs == 1..NProcs

\* Each contender keeps at most one descriptor in lock_fd and the path links
\* at most one inode, so NProcs + 1 inode numbers always leave one unused.
Inodes == 1..(NProcs + 1)

WalLock == "memory.wal.lock"

DataLock == "dialogues.lock"

Locks == {WalLock, DataLock}

(***************************************************************************)
(* FileLock (src/src/jojiai/file_lock.py)                                  *)
(***************************************************************************)

\* An inode number of lock l that neither the path nor any descriptor nor any
\* flock refers to: the file os.open(O_CREAT) creates.
FreshInode(l) ==
    CHOOSE i \in Inodes :
        /\ lockFile[l] # i
        /\ flockBy[l][i] = 0
        /\ \A q \in Procs : ~(cur[q] = l /\ lock_fd[q] = i)
        /\ \A j \in Inodes :
              (j < i) => \/ lockFile[l] = j
                         \/ flockBy[l][j] # 0
                         \/ \E q \in Procs : cur[q] = l /\ lock_fd[q] = j

\* os.open(lock_file, O_CREAT | O_WRONLY | O_TRUNC): the inode the path names
\* after the call (an existing file is reused, a missing one is created).
OpenedInode(l) == IF lockFile[l] # 0 THEN lockFile[l] ELSE FreshInode(l)

\* FileLock.acquire, line 45: open the lock file, creating it when missing.
AcquireOpen(p) ==
    /\ pc[p] = "acq_open"
    /\ LET l == cur[p]
           i == OpenedInode(l)
       IN  /\ lockFile' = [lockFile EXCEPT ![l] = i]
           /\ lock_fd' = [lock_fd EXCEPT ![p] = i]
    /\ pc' = [pc EXCEPT ![p] = "acq_flock"]
    /\ UNCHANGED <<cur, flockBy, notLock>>

\* fcntl.flock(fd, LOCK_EX | LOCK_NB) succeeds iff no other open file
\* description holds a flock on the same inode.
FlockGranted(p) == flockBy[cur[p]][lock_fd[p]] = 0

\* FileLock.acquire, lines 48-55: the lock is granted, the PID is written and
\* acquire returns True.
AcquireFlock(p) ==
    /\ pc[p] = "acq_flock"
    /\ FlockGranted(p)
    /\ flockBy' = [flockBy EXCEPT ![cur[p]][lock_fd[p]] = p]
    /\ pc' = [pc EXCEPT ![p] = "acquired"]
    /\ UNCHANGED <<cur, lock_fd, lockFile, notLock>>

\* FileLock.acquire, lines 57-61: flock raised EAGAIN/EACCES; sleep 0.1 s.
\* The descriptor stays open and stays in lock_fd.
AcquireBusy(p) ==
    /\ pc[p] = "acq_flock"
    /\ ~FlockGranted(p)
    /\ pc' = [pc EXCEPT ![p] = "acq_sleep"]
    /\ UNCHANGED <<lockVars, notLock>>

\* FileLock.acquire, line 42: the timeout has not elapsed, poll again.
AcquireRetry(p) ==
    /\ pc[p] = "acq_sleep"
    /\ pc' = [pc EXCEPT ![p] = "acq_open"]
    /\ UNCHANGED <<lockVars, notLock>>

AcquireTimeoutKeepsFd(p) ==
    /\ pc[p] = "acq_sleep"
    /\ pc' = [pc EXCEPT ![p] = "acq_timeout"]
    /\ UNCHANGED <<lockVars, notLock>>

\* FileLock.acquire, lines 69-73: the timeout elapsed; close the descriptor,
\* reset lock_fd and raise ConcurrencyError.
AcquireTimeout(p) ==
    /\ pc[p] = "acq_sleep"
    /\ lock_fd' = [lock_fd EXCEPT ![p] = 0]
    /\ pc' = [pc EXCEPT ![p] = "acq_timeout"]
    /\ UNCHANGED <<cur, lockFile, flockBy, notLock>>

ReleaseUnlockKept(p) ==
    /\ pc[p] = "rel_unlock"
    /\ flockBy' = flockBy
    /\ pc' = [pc EXCEPT ![p] = IF lock_fd[p] # 0 THEN "rel_close"
                                                ELSE "released"]
    /\ UNCHANGED <<cur, lock_fd, lockFile, notLock>>

\* FileLock.release, line 79: fcntl.flock(fd, LOCK_UN).
ReleaseUnlock(p) ==
    /\ pc[p] = "rel_unlock"
    /\ IF lock_fd[p] # 0
          THEN /\ flockBy' = [flockBy EXCEPT ![cur[p]][lock_fd[p]] = 0]
               /\ pc' = [pc EXCEPT ![p] = "rel_close"]
          ELSE /\ flockBy' = flockBy
               /\ pc' = [pc EXCEPT ![p] = "released"]
    /\ UNCHANGED <<cur, lock_fd, lockFile, notLock>>

\* FileLock.release, lines 80-81: os.close(fd); lock_fd = None.
ReleaseClose(p) ==
    /\ pc[p] = "rel_close"
    /\ lock_fd' = [lock_fd EXCEPT ![p] = 0]
    /\ pc' = [pc EXCEPT ![p] = "rel_unlink"]
    /\ UNCHANGED <<cur, lockFile, flockBy, notLock>>

\* FileLock.release, lines 84-87: os.unlink(lock_file) removes whatever file
\* the path names now; a missing file is ignored.
ReleaseUnlink(p) ==
    /\ pc[p] = "rel_unlink"
    /\ lockFile' = [lockFile EXCEPT ![cur[p]] = 0]
    /\ pc' = [pc EXCEPT ![p] = "released"]
    /\ UNCHANGED <<cur, lock_fd, flockBy, notLock>>

LockInit ==
    /\ cur = [p \in Procs |-> WalLock]
    /\ lock_fd = [p \in Procs |-> 0]
    /\ lockFile = [l \in Locks |-> 0]
    /\ flockBy = [l \in Locks |-> [i \in Inodes |-> 0]]

(***************************************************************************)
(* WALEntry and WriteAheadLog (src/src/jojiai/wal.py): the values          *)
(***************************************************************************)

\* Latest clock value of a run.
MaxClock == 2

\* Largest payload; payloads are 0..MaxData.
MaxData == 2

\* Size of the range of hash(): payloads that are equal modulo HashMod
\* collide.
HashMod == 2

\* Longest WAL a run builds.
MaxWal == 3

Data == 0..MaxData

Operations == {"INSERT", "UPDATE", "DELETE"}

\* The operations and payloads the single client's runs append.
AppendOps == {"INSERT", "DELETE"}

SeqData == {0, 1}

\* since_timestamp=None
None == -1

\* hash(json.dumps(data, sort_keys=True)), line 31: a function of the data
\* that is not injective.
Hash(d) == d % HashMod

\* A faulty id that leaves the timestamp out.
EntryIdNoTime(d, t) == <<0, Hash(d)>>

\* WALEntry.id, line 31: f"{timestamp}_{hash}".  The text before the first
\* "_" is the timestamp and the rest the hash, so the id is the pair.
EntryId(d, t) == <<t, Hash(d)>>

\* WALEntry(operation, data).to_dict(), lines 28-40, built at clock value t
\* (line 30: timestamp = time.time()).
WALEntry(o, d, t) ==
    [id |-> EntryId(d, t), operation |-> o, data |-> d, timestamp |-> t]

\* WALEntry.from_dict, lines 43-47, evaluated at clock value t: the
\* timestamp is `data['timestamp'] or time.time()`, the id is the stored id.
from_dict(e, t) ==
    [id |-> e.id, operation |-> e.operation, data |-> e.data,
     timestamp |-> IF e.timestamp = 0 THEN t ELSE e.timestamp]

\* A WAL file holding the JSON list es.
WalList(es) == [kind |-> "list", entries |-> es]

\* A WAL file whose content is not JSON.
WalCorrupt == [kind |-> "corrupt", entries |-> <<>>]

\* No WAL file.
WalAbsent == [kind |-> "absent", entries |-> <<>>]

\* A faulty json.load that reads an unparseable file as the empty list.
JsonLoadLenient(f) == [ok |-> f.kind # "absent", data |-> f.entries]

\* open(wal_path); json.load(f), lines 98-99: raises for a missing file and
\* for content that is not JSON.
JsonLoad(f) == [ok |-> f.kind = "list", data |-> f.entries]

\* A faulty filter that also returns the entries stamped since_timestamp.
SinceFilterInclusive(es, since) ==
    IF since = None THEN es
    ELSE SelectSeq(es, LAMBDA e : e.timestamp >= since)

\* read_entries, lines 134-135.
SinceFilter(es, since) ==
    IF since = None THEN es
    ELSE SelectSeq(es, LAMBDA e : e.timestamp > since)

\* read_entries, lines 132-137, at clock value t.
ReadEntries(es, since, t) ==
    SinceFilter([i \in 1..Len(es) |-> from_dict(es[i], t)], since)

\* A faulty truncate that also removes the entries stamped before_timestamp.
TruncateFilterExclusive(es, before) ==
    SelectSeq(es, LAMBDA e : e.timestamp > before)

\* truncate, line 161.
TruncateFilter(es, before) ==
    SelectSeq(es, LAMBDA e : e.timestamp >= before)

NoEntry == WALEntry("INSERT", 0, 0)

\* The record of a WAL call: the call, its argument, whether it returned
\* ("ok") or raised ("WALError"), the entries or count or id it returned and
\* the list it read from the WAL file.
Ret(o, a, st, es, n, i, b) ==
    [op |-> o, arg |-> a, status |-> st, entries |-> es, count |-> n,
     id |-> i, before |-> b]

NoRet == Ret("none", None, "none", <<>>, 0, <<0, 0>>, <<>>)

\* Nobody has used the WAL: no WAL file.
WalUnused ==
    /\ walFile = WalAbsent
    /\ now = 1
    /\ entry = [p \in Procs |-> NoEntry]
    /\ wal_data = [p \in Procs |-> <<>>]
    /\ ret = [p \in Procs |-> NoRet]
    /\ appended = <<>>

\* A data file holding the JSON list xs.
DataList(xs) == [kind |-> "list", items |-> xs]

\* A data file holding one JSON object x, not a list.
DataObject(x) == [kind |-> "object", items |-> <<x>>]

\* No data file.
DataAbsent == [kind |-> "absent", items |-> <<>>]

\* No MemoryAgent has been constructed: no data file.
StoreUnused ==
    /\ dataFile = DataAbsent
    /\ dialogues = [p \in Procs |-> <<>>]

\* The locals of with_retry.wrapper (file_lock.py lines 167-189) and what
\* the call has done: max_retries, the loop variable attempt, last_exception
\* ("none" for None), current_delay in units of delay, the outcomes of the
\* invocations of func so far, and how the call ended ("none" while it runs,
\* "returned", or the kind of the exception raised).
Retry(m, a, le, cd, os, res) ==
    [max_retries |-> m, attempt |-> a, last_exception |-> le,
     current_delay |-> cd, outcomes |-> os, result |-> res]

\* No call is inside a with_retry wrapper.
NoRetry == Retry(0, 0, "none", 1, <<>>, "none")

\* The files a WAL entry can name.
Files == {"memory_dialogues_v2.json", "memory_profile_v2.json"}

\* The files of a data directory, by stem and suffix (Path.suffix): a memory
\* file, a file that carries the name of the snapshot metadata, and the log,
\* whose suffix is not one that is copied.
MetadataName == [stem |-> "metadata", suffix |-> ".json"]

DataNames ==
    { [stem |-> "memory_dialogues_v2", suffix |-> ".json"],
      MetadataName,
      [stem |-> "memory", suffix |-> ".wal"] }

\* File contents: 0 is "no such file".
NoFile == 0

Contents == {1, 2}

EmptyDir == [f \in DataNames |-> NoFile]

\* Snapshot names and directories.  A snapshot directory holds the copied
\* files, a metadata.json that is missing, written by create_snapshot ("ok"),
\* unparseable ("corrupt") or a copy of the data file of that name ("data"),
\* the timestamp and files_count of the metadata, and the mtime of the
\* directory.
SnapNames == {1, 2}

MetaKinds == {"missing", "ok", "corrupt", "data"}

SnapDir(fs, k, t, c, m) ==
    [exists |-> TRUE, files |-> fs, meta |-> k, timestamp |-> t,
     files_count |-> c, mtime |-> m]

SnapAbsent ==
    [exists |-> FALSE, files |-> EmptyDir, meta |-> "missing",
     timestamp |-> 0, files_count |-> 0, mtime |-> 0]

\* self.config.get('max_dialogues', 1000)
max_dialogues == 1000

\* File descriptors: the numbers os.open can return.  A closed descriptor
\* has no owner.
MaxFds == 3

Fds == 1..MaxFds

ClosedFd == [owner |-> 0, ino |-> 0, flock |-> FALSE]

\* No FileLock object tracked by descriptor is in use.
FdUnused ==
    /\ fdTable = [d \in Fds |-> ClosedFd]
    /\ lockDesc = [p \in Procs |-> 0]
    /\ pidIn = [i \in Inodes |-> 0]

\* No snapshot has been taken, nothing has been restored, the configuration
\* is the default one, no close() has been called.
RestUnused ==
    /\ dataDir = EmptyDir
    /\ backupDir = [n \in SnapNames |-> SnapAbsent]
    /\ freshDir = EmptyDir
    /\ config = max_dialogues
    /\ FdUnused
    /\ stop_flush = FALSE
    /\ stop_backup = FALSE

\* No wrapper is running, no acquire is waiting, the target directory is
\* empty.
OtherUnused ==
    /\ retry = [p \in Procs |-> NoRetry]
    /\ waited = [p \in Procs |-> 0]
    /\ timeout = [p \in Procs |-> 0]
    /\ held = [p \in Procs |-> 0]
    /\ targetDir = [f \in Files |-> DataAbsent]
    /\ RestUnused

\* Time passes.
Tick ==
    /\ now < MaxClock
    /\ now' = now + 1
    /\ UNCHANGED <<pc, op, lockVars, awVars, walFile, entry, wal_data, ret,
                   appended, storeVars, otherVars>>

(***************************************************************************)
(* atomic_write (src/src/jojiai/file_lock.py lines 103-155) and a plain    *)
(* reader of the target path (open(path); read to the end).                *)
(* os.name is never 'nt' here: the module imports fcntl.                   *)
(***************************************************************************)

\* Number of chunks a caller writes into its document.
DocLen == 2

\* The contenders that call atomic_write on the target path, and the one
\* that reads the path.
Writers == {1, 2}

Readers == {3}

\* The complete document the caller p writes inside its atomic_write block.
Doc(p) == [k \in 1..DocLen |-> p]

\* The document at the target path before any call.
InitDoc == [k \in 1..DocLen |-> 0]

\* A data inode no path and no descriptor refers to: the file
\* tempfile.NamedTemporaryFile(dir=dir_path, delete=False) creates.
FreshFile ==
    CHOOSE i \in Inodes :
        /\ awTarget # i
        /\ \A q \in Procs : awTmp[q] # i /\ awFd[q] # i
        /\ \A j \in Inodes :
              (j < i) => \/ awTarget = j
                         \/ \E q \in Procs : awTmp[q] = j \/ awFd[q] = j

\* The file system frees an inode once no path links it and no descriptor
\* is open on it: ino with the content of every such inode dropped.
Reclaim(ino, target, tmp, fd) ==
    [i \in Inodes |->
        IF target = i \/ \E q \in Procs : tmp[q] = i \/ fd[q] = i
           THEN ino[i] ELSE <<>>]

\* The state in which nobody uses atomic_write: no target, no temporary file.
AwUnused ==
    /\ awIno = [i \in Inodes |-> <<>>]
    /\ awTarget = 0
    /\ awTmp = [p \in Procs |-> 0]
    /\ awFd = [p \in Procs |-> 0]
    /\ awBuf = [p \in Procs |-> <<>>]

\* A caller enters `with atomic_write(path) as f:`.
AwBegin(p) ==
    /\ p \in Writers
    /\ pc[p] = "idle"
    /\ op' = [op EXCEPT ![p] = "atomic_write"]
    /\ pc' = [pc EXCEPT ![p] = "aw_create"]
    /\ UNCHANGED <<awVars, notAw>>

\* Lines 128-134: the temporary file is created empty in the target's
\* directory and temp_path is set.
AwCreateTemp(p) ==
    /\ pc[p] = "aw_create"
    /\ awTmp' = [awTmp EXCEPT ![p] = FreshFile]
    /\ pc' = [pc EXCEPT ![p] = "aw_body"]
    /\ UNCHANGED <<op, awIno, awTarget, awFd, awBuf, notAw>>

\* The exceptions the caller's block raises: the ValueError of
\* tests/test_file_lock.py line 165 and the TypeError of a json.dump of
\* something that is not JSON.
BodyExceptions == {"ValueError", "TypeError"}

\* Lines 148 and 155: `except Exception as e` catches the exception e,
\* raised by the block or by the steps around it, and raises
\* FileOperationError in its place.
AwRaised(e) ==
    Ret("atomic_write", None, "FileOperationError", <<>>, 0, <<0, 0>>, <<>>)

\* Lines 128-133 raise (the temporary file cannot be created): temp_path is
\* still None, so lines 148-155 have nothing to remove.
AwCreateFail(p) ==
    /\ pc[p] = "aw_create"
    /\ pc' = [pc EXCEPT ![p] = "aw_failed"]
    /\ ret' = [ret EXCEPT ![p] = AwRaised("OSError")]
    /\ UNCHANGED <<op, awVars, lockVars, walFile, now, entry, wal_data,
                   appended, storeVars, otherVars>>

\* A faulty atomic_write whose handle writes straight into the target file
\* when it exists.
AwHandleInPlace(p) == IF awTarget # 0 THEN awTarget ELSE awTmp[p]

\* The inode the handle yielded at line 135 writes to: the temporary file.
AwHandle(p) == awTmp[p]

\* Line 135, the caller's block: it writes the next chunk of its document.
AwBodyWrite(p) ==
    /\ pc[p] = "aw_body"
    /\ Len(awIno[awTmp[p]]) < DocLen
    /\ awIno' = [awIno EXCEPT ![AwHandle(p)] = Append(awIno[awTmp[p]], p)]
    /\ UNCHANGED <<pc, op, awTarget, awTmp, awFd, awBuf, notAw>>

\* Lines 148-155: the temporary file is unlinked when temp_path is set and
\* the file exists; FileOperationError is raised.
AwCleanup(p, e) ==
    /\ awTmp' = [awTmp EXCEPT ![p] = 0]
    /\ awIno' = Reclaim(awIno, awTarget, awTmp', awFd)
    /\ pc' = [pc EXCEPT ![p] = "aw_failed"]
    /\ ret' = [ret EXCEPT ![p] = AwRaised(e)]
    /\ UNCHANGED <<op, awTarget, awFd, awBuf, lockVars, walFile, now, entry,
                   wal_data, appended, storeVars, otherVars>>

\* Line 135: the caller's block raises e, before, between or after its
\* writes; the generator is resumed with e at the yield.
AwBodyRaise(p, e) ==
    /\ pc[p] = "aw_body"
    /\ AwCleanup(p, e)

\* Line 135: the caller's block ends normally with the document written.
AwBodyReturn(p) ==
    /\ pc[p] = "aw_body"
    /\ Len(awIno[awTmp[p]]) = DocLen
    /\ pc' = [pc EXCEPT ![p] = "aw_flush"]
    /\ UNCHANGED <<op, awVars, notAw>>

\* Lines 136-137: flush and fsync succeed; the file is closed.
AwFlush(p) ==
    /\ pc[p] = "aw_flush"
    /\ pc' = [pc EXCEPT ![p] = "aw_replace"]
    /\ UNCHANGED <<op, awVars, notAw>>

\* Lines 136-137 raise (for example the disk is full).
AwFlushFail(p) ==
    /\ pc[p] = "aw_flush"
    /\ AwCleanup(p, "OSError")

\* Lines 145-146: os.replace(temp_path, file_path) renames the temporary
\* file onto the target in one step.
AwReplace(p) ==
    /\ pc[p] = "aw_replace"
    /\ awTarget' = awTmp[p]
    /\ awTmp' = [awTmp EXCEPT ![p] = 0]
    /\ awIno' = Reclaim(awIno, awTarget', awTmp', awFd)
    /\ pc' = [pc EXCEPT ![p] = "aw_done"]
    /\ UNCHANGED <<op, awFd, awBuf, notAw>>

\* Line 145 raises.
AwReplaceFail(p) ==
    /\ pc[p] = "aw_replace"
    /\ AwCleanup(p, "OSError")

\* A reader opens the target path: FileNotFoundError when it is absent.
RdOpen(p) ==
    /\ p \in Readers
    /\ pc[p] = "idle"
    /\ op' = [op EXCEPT ![p] = "read_file"]
    /\ IF awTarget = 0
          THEN /\ pc' = [pc EXCEPT ![p] = "rd_absent"]
               /\ UNCHANGED awVars
          ELSE /\ pc' = [pc EXCEPT ![p] = "rd_read"]
               /\ awFd' = [awFd EXCEPT ![p] = awTarget]
               /\ awBuf' = [awBuf EXCEPT ![p] = <<>>]
               /\ UNCHANGED <<awIno, awTarget, awTmp>>
    /\ UNCHANGED notAw

\* The reader reads the next chunk of the file it opened, or reaches the end
\* of the file and closes it.
RdRead(p) ==
    /\ pc[p] = "rd_read"
    /\ IF Len(awBuf[p]) < Len(awIno[awFd[p]])
          THEN /\ awBuf' = [awBuf EXCEPT ![p] =
                               Append(@, awIno[awFd[p]][Len(@) + 1])]
               /\ UNCHANGED <<pc, awFd, awIno>>
          ELSE /\ pc' = [pc EXCEPT ![p] = "rd_done"]
               /\ awFd' = [awFd EXCEPT ![p] = 0]
               /\ awIno' = Reclaim(awIno, awTarget, awTmp, awFd')
               /\ UNCHANGED awBuf
    /\ UNCHANGED <<op, awTarget, awTmp, notAw>>

\* The call is over (returned or raised); the contender may start another.
AwReturn(p) ==
    /\ pc[p] \in {"aw_done", "aw_failed", "rd_done", "rd_absent"}
    /\ pc' = [pc EXCEPT ![p] = "idle"]
    /\ op' = [op EXCEPT ![p] = "none"]
    /\ awBuf' = [awBuf EXCEPT ![p] = <<>>]
    /\ ret' = [ret EXCEPT ![p] = NoRet]
    /\ UNCHANGED <<awIno, awTarget, awTmp, awFd, lockVars, walFile, now, entry,
                   wal_data, appended, storeVars, otherVars>>

\* The target is absent, or holds a complete document in inode 1.
InitAtomicWrite ==
    /\ pc = [p \in Procs |-> "idle"]
    /\ op = [p \in Procs |-> "none"]
    /\ LockInit
    /\ awTarget \in {0, 1}
    /\ awIno = [i \in Inodes |-> IF i = awTarget THEN InitDoc ELSE <<>>]
    /\ awTmp = [p \in Procs |-> 0]
    /\ awFd = [p \in Procs |-> 0]
    /\ awBuf = [p \in Procs |-> <<>>]
    /\ WalUnused
    /\ StoreUnused
    /\ OtherUnused

NextAtomicWrite ==
    \E p \in Procs :
        \/ AwBegin(p)
        \/ AwCreateTemp(p)
        \/ AwCreateFail(p)
        \/ AwBodyWrite(p)
        \/ \E e \in BodyExceptions : AwBodyRaise(p, e)
        \/ AwBodyReturn(p)
        \/ AwFlush(p)
        \/ AwFlushFail(p)
        \/ AwReplace(p)
        \/ AwReplaceFail(p)
        \/ RdOpen(p)
        \/ RdRead(p)
        \/ AwReturn(p)

SpecAtomicWrite == InitAtomicWrite /\ [][NextAtomicWrite]_vars

\* What a reader that opens the target path now would find there.
TargetDoc == IF awTarget = 0 THEN <<"absent">> ELSE awIno[awTarget]

\* The complete documents: the one present before any call and those the
\* callers write.
CompleteDocs == {InitDoc} \cup {Doc(p) : p \in Writers}

\* C2, state part: the target holds a complete document, a failed call has
\* removed its temporary file, and a reader that read the target to its end
\* got a complete document.
C2_Complete ==
    /\ awTarget # 0 => awIno[awTarget] \in CompleteDocs
    /\ \A p \in Procs : pc[p] = "aw_failed" => awTmp[p] = 0
    /\ \A p \in Procs : pc[p] = "rd_done" => awBuf[p] \in CompleteDocs

\* C2, step part: only the rename of a successful call changes what the
\* target path holds, and it installs that caller's complete document; every
\* other step, in particular every step of a call that fails, leaves it as
\* it was.
C2_OnlyRename ==
    (TargetDoc' # TargetDoc) =>
        \E p \in Procs : /\ pc[p] = "aw_replace"
                         /\ pc'[p] = "aw_done"
                         /\ TargetDoc' = Doc(p)

Client == 1

\* WriteAheadLog.append(o, d), lines 93-112, at clock value now.
SeqAppend(o, d) ==
    /\ Len(walFile.entries) < MaxWal
    /\ LET e == WALEntry(o, d, now)
           j == JsonLoad(walFile)
       IN  IF j.ok
              THEN /\ walFile' = WalList(Append(j.data, e))
                   /\ ret' = [ret EXCEPT ![Client] =
                                 Ret("append", None, "ok", <<>>, 0, e.id, j.data)]
              ELSE /\ ret' = [ret EXCEPT ![Client] =
                                 Ret("append", None, "WALError", <<>>, 0,
                                     <<0, 0>>, <<>>)]
                   /\ UNCHANGED walFile
    /\ UNCHANGED <<pc, op, lockVars, now, entry, wal_data, notWal>>

\* An append whose caller keeps a list of what it appended: the id the call
\* returned with the operation and data it passed and the time of the call.
TrackedAppend(o, d) ==
    /\ SeqAppend(o, d)
    /\ appended' =
          IF ret'[Client].status = "ok"
             THEN Append(appended,
                         [id |-> ret'[Client].id, operation |-> o, data |-> d,
                          timestamp |-> now])
             ELSE appended

\* An append whose caller keeps no such list.
UntrackedAppend(o, d) ==
    /\ SeqAppend(o, d)
    /\ UNCHANGED appended

\* WriteAheadLog.read_entries(since), lines 127-140.
SeqRead(since) ==
    /\ LET j == JsonLoad(walFile)
       IN  ret' = [ret EXCEPT ![Client] =
                      IF j.ok
                         THEN Ret("read_entries", since, "ok",
                                  ReadEntries(j.data, since, now), 0, <<0, 0>>,
                                  j.data)
                         ELSE Ret("read_entries", since, "WALError", <<>>, 0,
                                  <<0, 0>>, <<>>)]
    /\ UNCHANGED <<pc, op, lockVars, walFile, now, entry, wal_data, appended,
                   notWal>>

\* WriteAheadLog.truncate(before), lines 155-171.
SeqTruncate(before) ==
    /\ LET j == JsonLoad(walFile)
           kept == TruncateFilter(j.data, before)
       IN  IF j.ok
              THEN /\ walFile' = WalList(kept)
                   /\ ret' = [ret EXCEPT ![Client] =
                                 Ret("truncate", before, "ok", <<>>,
                                     Len(j.data) - Len(kept), <<0, 0>>, j.data)]
              ELSE /\ ret' = [ret EXCEPT ![Client] =
                                 Ret("truncate", before, "WALError", <<>>, 0,
                                     <<0, 0>>, <<>>)]
                   /\ UNCHANGED walFile
    /\ UNCHANGED <<pc, op, lockVars, now, entry, wal_data, appended, notWal>>

\* Something outside the program overwrites the WAL file with text that is
\* not JSON (tests/test_wal.py lines 243-245).
ExternalCorruption ==
    /\ walFile.kind = "list"
    /\ walFile' = WalCorrupt
    /\ UNCHANGED <<pc, op, lockVars, now, entry, wal_data, ret, appended,
                   notWal>>

\* The state after WriteAheadLog(wal_path) on a missing path, lines 60-77.
InitWalSeq ==
    /\ pc = [p \in Procs |-> "idle"]
    /\ op = [p \in Procs |-> "none"]
    /\ LockInit
    /\ AwUnused
    /\ walFile = WalList(<<>>)
    /\ now = 1
    /\ entry = [p \in Procs |-> NoEntry]
    /\ wal_data = [p \in Procs |-> <<>>]
    /\ ret = [p \in Procs |-> NoRet]
    /\ appended = <<>>
    /\ StoreUnused
    /\ OtherUnused

NextWalAppend ==
    \/ Tick
    \/ \E o \in AppendOps, d \in SeqData : TrackedAppend(o, d)
    \/ \E since \in {None} \cup (0..MaxClock) : SeqRead(since)

\* Appends and reads only.
SpecWalAppend == InitWalSeq /\ [][NextWalAppend]_vars

NextWalSeq ==
    \/ Tick
    \/ \E o \in AppendOps, d \in SeqData : UntrackedAppend(o, d)
    \/ \E since \in {None} \cup (0..MaxClock) : SeqRead(since)
    \/ \E before \in 0..(MaxClock + 1) : SeqTruncate(before)
    \/ ExternalCorruption

\* Appends, reads, truncates, and corruption of the file from outside.
SpecWalSeq == InitWalSeq /\ [][NextWalSeq]_vars

\* The k-th entry (in order) of es among those that satisfy Keep.
Pick(es, Keep(_), k) ==
    es[CHOOSE i \in DOMAIN es :
          /\ Keep(es[i])
          /\ Cardinality({j \in 1..i : Keep(es[j])}) = k]

\* The subsequence of es of the entries that satisfy Keep.
SubSeqOf(es, Keep(_)) ==
    [k \in 1..Cardinality({i \in DOMAIN es : Keep(es[i])}) |-> Pick(es, Keep, k)]

C7_Result ==
    (ret[Client].op = "truncate" /\ ret[Client].status = "ok"
        /\ walFile.kind = "list") =>
        /\ walFile.entries =
              SubSeqOf(ret[Client].before,
                       LAMBDA e : e.timestamp >= ret[Client].arg)
        /\ ret[Client].count =
              Cardinality({i \in DOMAIN ret[Client].before :
                              ret[Client].before[i].timestamp < ret[Client].arg})

\* C7, step part: the read_entries() that follows such a truncate(T) returns
\* exactly the kept entries.
C7_FollowingRead ==
    (/\ ret[Client].op = "truncate" /\ ret[Client].status = "ok"
     /\ walFile.kind = "list"
     /\ ret'[Client].op = "read_entries" /\ ret'[Client].arg = None) =>
        /\ ret'[Client].status = "ok"
        /\ ret'[Client].entries =
              SubSeqOf(ret[Client].before,
                       LAMBDA e : e.timestamp >= ret[Client].arg)

\* C7: truncate(T) removes exactly the entries with timestamp < T, keeps the
\* others in order, returns the number removed, and a following
\* read_entries() returns the kept entries.
C7_Truncate == []C7_Result /\ [][C7_FollowingRead]_vars

\* C7 witness: a truncate removed one entry of a three-entry WAL, whose
\* second entry is stamped exactly T, and kept two.
C7_Witness ==
    /\ ret[Client].op = "truncate" /\ ret[Client].status = "ok"
    /\ Len(ret[Client].before) = 3
    /\ ret[Client].before[2].timestamp = ret[Client].arg
    /\ ret[Client].count = 1
    /\ walFile.kind = "list" /\ Len(walFile.entries) = 2

\* C10, step part: every call made on a WAL file that is not parseable
\* raises WALError (read_entries returns no list at all) and leaves the file
\* as it is.
C10_CallOnCorrupt ==
    (walFile.kind = "corrupt" /\ now' = now) =>
        /\ walFile' = walFile
        /\ ret'[Client].status = "WALError"
        /\ ret'[Client].entries = <<>>

\* C10: on an unparseable WAL file read_entries, append and truncate fail
\* with WALError and the file content stays unchanged.
C10_CorruptWal == [][C10_CallOnCorrupt]_vars

\* C10 witness: the WAL file is corrupt and a read_entries call on it has
\* raised WALError.
C10_Witness ==
    /\ walFile.kind = "corrupt"
    /\ ret[Client].op = "read_entries" /\ ret[Client].status = "WALError"

(***************************************************************************)
(* WriteAheadLog used concurrently: every thread constructs its own        *)
(* WriteAheadLog on the same path and appends once                         *)
(* (tests/test_wal.py lines 199-235), and the background thread of an      *)
(* instance runs its periodic truncate.  The WAL file is written by        *)
(* atomic_write and read by open/json.load: a write is one rename and a    *)
(* read sees one complete document.                                        *)
(***************************************************************************)

\* The threads that construct a WriteAheadLog and append, and the background
\* flush thread.
Appenders == {1, 2}

Maintainers == {3}

\* 7 * 24 * 3600 seconds: the age beyond which maintenance removes entries.
OldAge == 604800

\* WriteAheadLog.__init__, line 68: `if not self.wal_path.exists()`.
WalConstruct(p) ==
    /\ p \in Appenders
    /\ pc[p] = "idle" /\ op[p] = "none"
    /\ op' = [op EXCEPT ![p] = "construct"]
    /\ pc' = [pc EXCEPT ![p] =
                 IF walFile.kind = "absent" THEN "wal_init" ELSE "wal_ready"]
    /\ UNCHANGED <<lockVars, walVars, notWal>>

\* WriteAheadLog.__init__, lines 69-70: atomic_write of the empty list onto
\* the WAL path, without the WAL lock.
WalInitWrite(p) ==
    /\ pc[p] = "wal_init"
    /\ walFile' = WalList(<<>>)
    /\ pc' = [pc EXCEPT ![p] = "wal_ready"]
    /\ UNCHANGED <<op, lockVars, now, entry, wal_data, ret, appended, notWal>>

\* WriteAheadLog.append, lines 93-96: the entry is built, with its timestamp
\* and id, and then the WAL lock is requested.
AppendBegin(p, o, d) ==
    /\ pc[p] = "wal_ready" /\ op[p] = "construct"
    /\ op' = [op EXCEPT ![p] = "append"]
    /\ entry' = [entry EXCEPT ![p] = WALEntry(o, d, now)]
    /\ cur' = [cur EXCEPT ![p] = WalLock]
    /\ pc' = [pc EXCEPT ![p] = "acq_open"]
    /\ UNCHANGED <<lock_fd, lockFile, flockBy, walFile, now, wal_data, ret,
                   appended, notWal>>

\* WriteAheadLog.append, lines 98-102, under the lock: the WAL is read and the
\* entry appended to the list in memory; a file that cannot be parsed raises,
\* the lock is released and WALError leaves the call.
AppendRead(p) ==
    /\ pc[p] = "acquired" /\ cur[p] = WalLock /\ op[p] \in {"append", "store"}
    /\ LET j == JsonLoad(walFile)
       IN  IF j.ok
              THEN /\ wal_data' = [wal_data EXCEPT ![p] = Append(j.data, entry[p])]
                   /\ pc' = [pc EXCEPT ![p] = "app_write"]
                   /\ UNCHANGED ret
              ELSE /\ ret' = [ret EXCEPT ![p] =
                                 Ret("append", None, "WALError", <<>>, 0,
                                     <<0, 0>>, <<>>)]
                   /\ pc' = [pc EXCEPT ![p] = "rel_unlock"]
                   /\ UNCHANGED wal_data
    /\ UNCHANGED <<op, lockVars, walFile, now, entry, appended, notWal>>

\* WriteAheadLog.append, lines 105-107: the list is written back and the id
\* is the value of the call; leaving the with block releases the lock.
AppendWrite(p) ==
    /\ pc[p] = "app_write"
    /\ walFile' = WalList(wal_data[p])
    /\ wal_data' = [wal_data EXCEPT ![p] = <<>>]
    /\ ret' = [ret EXCEPT ![p] =
                  Ret("append", None, "ok", <<>>, 0, entry[p].id, <<>>)]
    /\ pc' = [pc EXCEPT ![p] = "rel_unlock"]
    /\ UNCHANGED <<op, lockVars, now, entry, appended, notWal>>

\* A faulty append that returns with its lock still held.
AppendReturnLocked(p) ==
    /\ pc[p] = "rel_unlock" /\ cur[p] = WalLock /\ op[p] \in {"append", "store"}
    /\ pc' = [pc EXCEPT ![p] = "app_end"]
    /\ UNCHANGED <<op, lockVars, walVars, notWal>>

\* WriteAheadLog.append, line 107 or 112: the lock is released and the call
\* returns the id or raises the WALError.
AppendReturn(p) ==
    /\ pc[p] = "released" /\ cur[p] = WalLock /\ op[p] \in {"append", "store"}
    /\ pc' = [pc EXCEPT ![p] = "app_end"]
    /\ UNCHANGED <<op, lockVars, walVars, notWal>>

\* WriteAheadLog.append, lines 96 and 111-112: FileLock.acquire timed out;
\* the ConcurrencyError becomes a WALError, which with_retry does not retry.
AppendTimeout(p) ==
    /\ pc[p] = "acq_timeout" /\ cur[p] = WalLock /\ op[p] \in {"append", "store"}
    /\ ret' = [ret EXCEPT ![p] =
                  Ret("append", None, "WALError", <<>>, 0, <<0, 0>>, <<>>)]
    /\ pc' = [pc EXCEPT ![p] = "app_end"]
    /\ UNCHANGED <<op, lockVars, walFile, now, entry, wal_data, appended,
                   notWal>>

\* _background_flush, lines 184-190, of an instance that has been
\* constructed: the threshold is computed and truncate requests the lock.
MaintBegin(p) ==
    /\ p \in Maintainers
    /\ pc[p] = "idle" /\ op[p] = "none"
    /\ \E q \in Appenders : pc[q] \notin {"idle", "wal_init"}
    /\ op' = [op EXCEPT ![p] = "truncate"]
    /\ ret' = [ret EXCEPT ![p] =
                  Ret("truncate", now - OldAge, "none", <<>>, 0, <<0, 0>>, <<>>)]
    /\ cur' = [cur EXCEPT ![p] = WalLock]
    /\ pc' = [pc EXCEPT ![p] = "acq_open"]
    /\ UNCHANGED <<lock_fd, lockFile, flockBy, walFile, now, entry, wal_data,
                   appended, notWal>>

\* WriteAheadLog.truncate, lines 157-162, under the lock.
TruncRead(p) ==
    /\ pc[p] = "acquired" /\ cur[p] = WalLock /\ op[p] = "truncate"
    /\ LET j == JsonLoad(walFile)
           kept == TruncateFilter(j.data, ret[p].arg)
       IN  IF j.ok
              THEN /\ wal_data' = [wal_data EXCEPT ![p] = kept]
                   /\ ret' = [ret EXCEPT ![p].count = Len(j.data) - Len(kept)]
                   /\ pc' = [pc EXCEPT ![p] = "trunc_write"]
              ELSE /\ ret' = [ret EXCEPT ![p].status = "WALError"]
                   /\ pc' = [pc EXCEPT ![p] = "rel_unlock"]
                   /\ UNCHANGED wal_data
    /\ UNCHANGED <<op, lockVars, walFile, now, entry, appended, notWal>>

\* WriteAheadLog.truncate, lines 164-168.
TruncWrite(p) ==
    /\ pc[p] = "trunc_write"
    /\ walFile' = WalList(wal_data[p])
    /\ wal_data' = [wal_data EXCEPT ![p] = <<>>]
    /\ ret' = [ret EXCEPT ![p].status = "ok"]
    /\ pc' = [pc EXCEPT ![p] = "rel_unlock"]
    /\ UNCHANGED <<op, lockVars, now, entry, appended, notWal>>

\* WriteAheadLog.truncate returns or raises (a lock timeout included); the
\* background thread logs the error and goes back to sleep, lines 191-196.
MaintReturn(p) ==
    /\ pc[p] \in {"released", "acq_timeout"} /\ op[p] = "truncate"
    /\ ret' = [ret EXCEPT ![p].status =
                  IF pc[p] = "acq_timeout" THEN "WALError" ELSE @]
    /\ pc' = [pc EXCEPT ![p] = "done"]
    /\ UNCHANGED <<op, lockVars, walFile, now, entry, wal_data, appended,
                   notWal>>

\* No WAL file, no lock file, nobody has started.
InitWal ==
    /\ pc = [p \in Procs |-> "idle"]
    /\ op = [p \in Procs |-> "none"]
    /\ LockInit
    /\ AwUnused
    /\ WalUnused
    /\ StoreUnused
    /\ OtherUnused

NextWal ==
    \/ Tick
    \/ \E p \in Procs :
          \/ WalConstruct(p)
          \/ WalInitWrite(p)
          \/ \E d \in Data : AppendBegin(p, "INSERT", d)
          \/ AppendRead(p)
          \/ AppendWrite(p)
          \/ AppendReturn(p)
          \/ AppendTimeout(p)
          \/ MaintBegin(p)
          \/ TruncRead(p)
          \/ TruncWrite(p)
          \/ MaintReturn(p)
          \/ AcquireOpen(p)
          \/ AcquireFlock(p)
          \/ AcquireBusy(p)
          \/ AcquireRetry(p)
          \/ AcquireTimeout(p)
          \/ ReleaseUnlock(p)
          \/ ReleaseClose(p)
          \/ ReleaseUnlink(p)

SpecWal == InitWal /\ [][NextWal]_vars

\* The appends that have returned an id.
Returned == {p \in Appenders : pc[p] = "app_end" /\ ret[p].status = "ok"}

\* C3: once every thread's append has returned without error, the WAL holds
\* exactly one entry per append, and the entry of every append that returned
\* is in it: none is lost by another instance's construction, append or
\* truncate.
C3_NoLostAppend ==
    /\ \A p \in Returned :
          /\ walFile.kind = "list"
          /\ \E i \in DOMAIN walFile.entries : walFile.entries[i] = entry[p]
    /\ (Returned = Appenders) =>
          Len(walFile.entries) = Cardinality(Appenders)

\* C8: the timestamps of the entries stored in the WAL file are
\* non-decreasing in file order.
C8_TimestampsOrdered ==
    \A i, j \in DOMAIN walFile.entries :
        (i < j) => walFile.entries[i].timestamp <= walFile.entries[j].timestamp

Stores == {1, 2}

Recoverers == {3}

\* The Python slice xs[-m:] for m >= 0: the last m elements, all of xs when
\* it has no more than m, and all of xs for m = 0, since -0 is 0 and xs[0:]
\* is xs.
SliceLast(xs, m) ==
    IF m = 0 \/ m >= Len(xs) THEN xs ELSE SubSeq(xs, Len(xs) - m + 1, Len(xs))

\* Lines 124-127: max_dialogues = self.config.get('max_dialogues', 1000);
\* dialogues[-max_dialogues:] when the list is longer than that.
Trim(xs) == IF Len(xs) > config THEN SliceLast(xs, config) ELSE xs

\* A faulty store_dialogue that goes on to the data file whatever
\* wal.append did.
WalAppendIgnored(p) == TRUE

\* Lines 109-112 returned: wal.append gave an id and raised nothing.
WalAppendOk(p) == ret[p].op = "append" /\ ret[p].status = "ok"

\* store_dialogue, lines 96-112: the segment is built and wal.append is
\* called with it (WALEntry built at wal.py line 93).
StoreBegin(p, d) ==
    /\ p \in Stores
    /\ pc[p] = "idle" /\ op[p] = "none"
    /\ op' = [op EXCEPT ![p] = "store"]
    /\ entry' = [entry EXCEPT ![p] = WALEntry("INSERT", d, now)]
    /\ cur' = [cur EXCEPT ![p] = WalLock]
    /\ pc' = [pc EXCEPT ![p] = "acq_open"]
    /\ UNCHANGED <<lock_fd, lockFile, flockBy, walFile, now, wal_data, ret,
                   appended, notWal>>

\* Lines 115-116: wal.append has returned; the lock of the data file is
\* requested.
StoreWalDone(p) ==
    /\ op[p] = "store" /\ pc[p] = "app_end"
    /\ WalAppendOk(p)
    /\ cur' = [cur EXCEPT ![p] = DataLock]
    /\ pc' = [pc EXCEPT ![p] = "acq_open"]
    /\ UNCHANGED <<op, lock_fd, lockFile, flockBy, walVars, notWal>>

\* Lines 136-137: wal.append raised WALError; store_dialogue raises
\* MemoryError, which with_retry does not retry.
StoreWalFailed(p) ==
    /\ op[p] = "store" /\ pc[p] = "app_end"
    /\ ret[p].op = "append" /\ ret[p].status = "WALError"
    /\ ret' = [ret EXCEPT ![p] =
                  Ret("store_dialogue", None, "MemoryError", <<>>, 0, <<0, 0>>,
                      <<>>)]
    /\ pc' = [pc EXCEPT ![p] = "done"]
    /\ UNCHANGED <<op, lockVars, walFile, now, entry, wal_data, appended,
                   notWal>>

\* Lines 118-127, under the data lock: the file is read, the segment appended
\* and the list trimmed.  A file that is missing or holds no list raises.
StoreRead(p) ==
    /\ pc[p] = "acquired" /\ cur[p] = DataLock /\ op[p] = "store"
    /\ IF dataFile.kind = "list"
          THEN /\ dialogues' = [dialogues EXCEPT ![p] =
                                   Trim(Append(dataFile.items, entry[p].data))]
               /\ pc' = [pc EXCEPT ![p] = "store_write"]
               /\ UNCHANGED ret
          ELSE /\ ret' = [ret EXCEPT ![p] =
                             Ret("store_dialogue", None, "MemoryError", <<>>, 0,
                                 <<0, 0>>, <<>>)]
               /\ pc' = [pc EXCEPT ![p] = "rel_unlock"]
               /\ UNCHANGED dialogues
    /\ UNCHANGED <<op, lockVars, awVars, walFile, now, entry, wal_data,
                   appended, dataFile, otherVars>>

\* Line 96: dialogue_id = f"dialogue_{int(time.time() * 1000)}", a function
\* of the clock value alone (the second component is the constant prefix).
DialogueId(t) == <<t, 0>>

\* Lines 130-134: the list is written back with atomic_write and the id
\* built at line 96 is returned; the call read the clock once, in StoreBegin.
StoreWrite(p) ==
    /\ pc[p] = "store_write"
    /\ dataFile' = DataList(dialogues[p])
    /\ dialogues' = [dialogues EXCEPT ![p] = <<>>]
    /\ ret' = [ret EXCEPT ![p] =
                  Ret("store_dialogue", None, "ok", <<>>, 0,
                      DialogueId(entry[p].timestamp), <<>>)]
    /\ pc' = [pc EXCEPT ![p] = "rel_unlock"]
    /\ UNCHANGED <<op, lockVars, awVars, walFile, now, entry, wal_data,
                   appended, otherVars>>

\* Lines 133-134 or 136-137: the data lock is released and the call returns
\* the id or raises MemoryError.
StoreReturn(p) ==
    /\ pc[p] = "released" /\ cur[p] = DataLock /\ op[p] = "store"
    /\ pc' = [pc EXCEPT ![p] = "done"]
    /\ UNCHANGED <<op, lockVars, walVars, notWal>>

\* Lines 116 and 136-137: the acquire of the data lock timed out.
StoreLockTimeout(p) ==
    /\ pc[p] = "acq_timeout" /\ cur[p] = DataLock /\ op[p] = "store"
    /\ ret' = [ret EXCEPT ![p] =
                  Ret("store_dialogue", None, "MemoryError", <<>>, 0, <<0, 0>>,
                      <<>>)]
    /\ pc' = [pc EXCEPT ![p] = "done"]
    /\ UNCHANGED <<op, lockVars, walFile, now, entry, wal_data, appended,
                   notWal>>

\* The call is interrupted (the thread or the process dies) after wal.append
\* returned and before the data lock is requested.
Crash(p) ==
    /\ op[p] = "store" /\ pc[p] = "app_end"
    /\ ret[p].op = "append" /\ ret[p].status = "ok"
    /\ pc' = [pc EXCEPT ![p] = "crashed"]
    /\ UNCHANGED <<op, lockVars, walVars, notWal>>

\* _replay_wal_entry, lines 236-249, applied to the file the entry names:
\* INSERT and UPDATE write data['content'] as the whole file, DELETE removes
\* the file.
ReplayEntry(f, e) ==
    IF e.operation \in {"INSERT", "UPDATE"} THEN DataObject(e.data)
    ELSE DataAbsent

\* recover_from_wal, lines 222-227: the entries are replayed in order.
RECURSIVE Replay(_, _)
Replay(f, es) ==
    IF es = <<>> THEN f ELSE Replay(ReplayEntry(f, Head(es)), Tail(es))

\* BackupManager.recover_from_wal(), lines 218-234, run when no store call
\* is in progress.
Recover(p) ==
    /\ p \in Recoverers
    /\ pc[p] = "idle" /\ op[p] = "none"
    /\ \A q \in Stores : pc[q] \in {"done", "crashed"}
    /\ LET j == JsonLoad(walFile)
           es == ReadEntries(j.data, None, now)
       IN  IF j.ok
              THEN /\ dataFile' = Replay(dataFile, es)
                   /\ ret' = [ret EXCEPT ![p] =
                                 Ret("recover_from_wal", None, "ok", <<>>,
                                     Len(es), <<0, 0>>, <<>>)]
              ELSE /\ ret' = [ret EXCEPT ![p] =
                                 Ret("recover_from_wal", None, "RecoveryError",
                                     <<>>, 0, <<0, 0>>, <<>>)]
                   /\ UNCHANGED dataFile
    /\ op' = [op EXCEPT ![p] = "recover"]
    /\ pc' = [pc EXCEPT ![p] = "done"]
    /\ UNCHANGED <<lockVars, awVars, walFile, now, entry, wal_data, appended,
                   dialogues, otherVars>>

\* The state after MemoryAgent(memory_path) on an empty directory, lines
\* 28-76: the WAL and the dialogues file hold the empty list.
InitStore ==
    /\ pc = [p \in Procs |-> "idle"]
    /\ op = [p \in Procs |-> "none"]
    /\ LockInit
    /\ AwUnused
    /\ walFile = WalList(<<>>)
    /\ now = 1
    /\ entry = [p \in Procs |-> NoEntry]
    /\ wal_data = [p \in Procs |-> <<>>]
    /\ ret = [p \in Procs |-> NoRet]
    /\ appended = <<>>
    /\ dataFile = DataList(<<>>)
    /\ dialogues = [p \in Procs |-> <<>>]
    /\ OtherUnused

NextStore ==
    \/ Tick
    \/ ExternalCorruption
    \/ \E p \in Procs :
          \/ \E d \in Data : StoreBegin(p, d)
          \/ AppendRead(p)
          \/ AppendWrite(p)
          \/ AppendReturn(p)
          \/ AppendTimeout(p)
          \/ StoreWalDone(p)
          \/ StoreWalFailed(p)
          \/ StoreRead(p)
          \/ StoreWrite(p)
          \/ StoreReturn(p)
          \/ StoreLockTimeout(p)
          \/ Crash(p)
          \/ Recover(p)
          \/ AcquireOpen(p)
          \/ AcquireFlock(p)
          \/ AcquireBusy(p)
          \/ AcquireRetry(p)
          \/ AcquireTimeout(p)
          \/ ReleaseUnlock(p)
          \/ ReleaseClose(p)
          \/ ReleaseUnlink(p)

SpecStore == InitStore /\ [][NextStore]_vars

\* The locks a contender holds: the flocks granted to its descriptors.
LocksOf(p) == {l \in Locks : \E i \in Inodes : flockBy[l][i] = p}

\* C15: a lock-guarded operation that has returned or raised holds no lock
\* and no lock descriptor.  This covers wal.append, ended at "app_end" by its
\* return, by WALError from under the lock and by a lock timeout, and
\* store_dialogue, ended at "done" by its return, by MemoryError from under
\* the data lock and by a timeout of either lock.
C15_LockReleased ==
    \A p \in Procs :
        (pc[p] \in {"app_end", "done", "crashed"}) =>
            (LocksOf(p) = {} /\ lock_fd[p] = 0)

\* C15 witness: one store_dialogue has raised after a lock timeout and the
\* other has returned normally; neither holds a lock.
C15_Witness ==
    \E p, q \in Stores :
        /\ pc[p] = "done" /\ ret[p].status = "MemoryError"
        /\ pc[q] = "done" /\ ret[q].status = "ok"
        /\ LocksOf(p) = {} /\ LocksOf(q) = {}
        /\ dataFile.kind = "list"

\* C18: the ids returned by two store_dialogue calls differ.
C18_StoreIdsDistinct ==
    \A p \in Stores : \A q \in Stores \ {p} :
        (/\ pc[p] = "done" /\ ret[p].op = "store_dialogue"
         /\ ret[p].status = "ok"
         /\ pc[q] = "done" /\ ret[q].op = "store_dialogue"
         /\ ret[q].status = "ok")
        => (ret[p].id # ret[q].id)

\* C19: a store_dialogue call that ends because the acquire of its data lock
\* timed out raises ConcurrencyError.
C19_TimeoutKind ==
    [][\A p \in Stores :
          (/\ op[p] = "store" /\ cur[p] = DataLock
           /\ pc[p] = "acq_timeout" /\ pc'[p] = "done")
          => (ret'[p].status = "ConcurrencyError")]_vars

\* C4, step part: (1) the step at which a store call's wal.append succeeds
\* leaves the call's entry at the end of the WAL file; (2) a store call
\* changes the data file only by its write at lines 130-131, made after its
\* wal.append returned an id; (3) no step of a call whose wal.append raised
\* changes the data file.
C4_WalFirstStep ==
    /\ \A p \in Stores :
          (~WalAppendOk(p) /\ WalAppendOk(p)') =>
              /\ walFile'.kind = "list" /\ Len(walFile'.entries) > 0
              /\ walFile'.entries[Len(walFile'.entries)] = entry[p]
    /\ (dataFile' # dataFile) =>
          \/ \E r \in Recoverers : pc[r] = "idle" /\ pc'[r] = "done"
          \/ \E p \in Stores :
                /\ pc[p] = "store_write" /\ pc'[p] = "rel_unlock"
                /\ ret[p].op = "append" /\ ret[p].status = "ok"
    /\ \A p \in Stores :
          (ret[p].status = "WALError" /\ pc'[p] # pc[p]) =>
              /\ dataFile' = dataFile
              /\ (pc[p] = "app_end") =>
                    (pc'[p] = "done" /\ ret'[p].status = "MemoryError")

\* C4: the data file is replaced only after the WAL append of the mutation
\* has succeeded, and a failed WAL append leaves the data file unchanged.
C4_WalFirst == [][C4_WalFirstStep]_vars

\* C4 witness: one store call has written its entry to the WAL and then its
\* segment to the data file; the other failed on its WAL append, raised
\* MemoryError, and its segment is in neither file.
C4_Witness ==
    \E p, q \in Stores :
        /\ pc[p] = "done" /\ ret[p].op = "store_dialogue" /\ ret[p].status = "ok"
        /\ pc[q] = "done" /\ ret[q].status = "MemoryError" /\ cur[q] = WalLock
        /\ entry[p] # entry[q]
        /\ walFile = WalList(<<entry[p]>>)
        /\ dataFile = DataList(<<entry[p].data>>)

\* The store calls whose wal.append succeeded: those that completed and
\* those that were interrupted after it.
Logged ==
    {q \in Stores : \/ pc[q] = "crashed"
                    \/ pc[q] = "done" /\ ret[q].status = "ok"}

\* C5: after recover_from_wal has run on a directory in which a store call
\* was interrupted between its WAL append and its data-file write, the data
\* file is the list of the segments of all the logged calls: the previously
\* stored ones and the interrupted one.
C5_RecoveryRedoes ==
    (/\ \E r \in Recoverers : pc[r] = "done" /\ ret[r].status = "ok"
     /\ \E q \in Stores : pc[q] = "crashed") =>
        /\ dataFile.kind = "list"
        /\ \A q \in Logged :
              \E i \in DOMAIN dataFile.items : dataFile.items[i] = entry[q].data

(***************************************************************************)
(* with_retry (src/src/jojiai/file_lock.py lines 158-192) around a         *)
(* function whose every invocation succeeds or raises, as it chooses.      *)
(***************************************************************************)

\* Largest max_retries a run passes to with_retry.
MaxRetries == 3

\* except (ConcurrencyError, FileOperationError), line 174.
Transient == {"ConcurrencyError", "FileOperationError"}

\* What one invocation of the wrapped function can do: return, or raise one
\* of the exceptions of exceptions.py or a builtin one.
Outcomes == {"success", "ConcurrencyError", "FileOperationError", "WALError",
             "ValueError"}

\* A faulty test that allows one retry too many.
MayRetryInclusive(attempt, max_retries) == attempt <= max_retries

\* Line 176: `if attempt < max_retries`.
MayRetry(attempt, max_retries) == attempt < max_retries

\* One iteration of the loop of lines 171-186 in which func does o: a
\* success is returned (line 173), a transient error is kept as
\* last_exception and either slept on (lines 177-179) or, on the last
\* attempt, raised after the loop (lines 181-182, 189), any other exception
\* is raised at once (lines 184-186).
RetryIteration(r, o) ==
    LET os == Append(r.outcomes, o)
    IN  IF o = "success"
           THEN [r EXCEPT !.outcomes = os, !.result = "returned"]
        ELSE IF o \in Transient
           THEN IF MayRetry(r.attempt, r.max_retries)
                   THEN [r EXCEPT !.outcomes = os, !.last_exception = o,
                                  !.attempt = @ + 1,
                                  !.current_delay = @ * 2]
                   ELSE [r EXCEPT !.outcomes = os, !.last_exception = o,
                                  !.result = o]
        ELSE [r EXCEPT !.outcomes = os, !.result = o]

\* A call of a function decorated with with_retry(max_retries=m): lines
\* 167-168.
RetryCall(p, m) ==
    /\ pc[p] = "idle" /\ op[p] = "none"
    /\ op' = [op EXCEPT ![p] = "with_retry"]
    /\ pc' = [pc EXCEPT ![p] = "rt_loop"]
    /\ retry' = [retry EXCEPT ![p] = Retry(m, 0, "none", 1, <<>>, "none")]
    /\ UNCHANGED <<lockVars, awVars, walVars, storeVars, timedVars,
                   targetDir, restVars>>

\* Lines 171-186: func is invoked once more and does o.
RetryInvoke(p, o) ==
    /\ pc[p] = "rt_loop" /\ op[p] = "with_retry"
    /\ retry' = [retry EXCEPT ![p] = RetryIteration(retry[p], o)]
    /\ pc' = [pc EXCEPT ![p] =
                 IF retry'[p].result = "none" THEN "rt_loop" ELSE "rt_done"]
    /\ UNCHANGED <<op, lockVars, awVars, walVars, storeVars, timedVars,
                   targetDir, restVars>>

\* The call has returned or raised; the caller may call again.
RetryReturn(p) ==
    /\ pc[p] = "rt_done" /\ op[p] = "with_retry"
    /\ op' = [op EXCEPT ![p] = "none"]
    /\ pc' = [pc EXCEPT ![p] = "idle"]
    /\ UNCHANGED <<lockVars, awVars, walVars, storeVars, otherVars>>

InitRetry ==
    /\ pc = [p \in Procs |-> "idle"]
    /\ op = [p \in Procs |-> "none"]
    /\ LockInit
    /\ AwUnused
    /\ WalUnused
    /\ StoreUnused
    /\ OtherUnused

NextRetry ==
    \/ \E m \in 0..MaxRetries : RetryCall(Client, m)
    \/ \E o \in Outcomes : RetryInvoke(Client, o)
    \/ RetryReturn(Client)

SpecRetry == InitRetry /\ [][NextRetry]_vars

\* C11: the wrapped operation is invoked until the first success, the first
\* non-transient error, or max_retries+1 transient failures.  Every
\* invocation but the last failed transiently; a call that is over returned
\* if its last invocation succeeded (r transient failures, r+1 invocations),
\* raised the last failure after exactly max_retries+1 invocations if that
\* was transient, and raised the non-transient error of its last invocation
\* at once otherwise (after exactly 1 invocation when it is the first).
C11_RetryContract ==
    LET r == retry[Client]
        os == r.outcomes
        n == Len(os)
    IN  /\ n <= r.max_retries + 1
        /\ \A i \in 1..(n - 1) : os[i] \in Transient
        /\ (r.result = "none") =>
              /\ n <= r.max_retries
              /\ \A i \in 1..n : os[i] \in Transient
        /\ (r.result # "none") =>
              /\ n >= 1
              /\ (os[n] = "success") => (r.result = "returned")
              /\ (os[n] \in Transient) =>
                    (n = r.max_retries + 1 /\ r.result = os[n])
              /\ (os[n] \notin Transient \cup {"success"}) => (r.result = os[n])

\* C11 witness: with max_retries = 3, two transient failures were followed by
\* a success, which the call returned after three invocations.
C11_Witness ==
    /\ retry[Client].max_retries = 3
    /\ retry[Client].outcomes =
          <<"ConcurrencyError", "FileOperationError", "success">>
    /\ retry[Client].result = "returned"
    /\ pc[Client] = "rt_done"

(***************************************************************************)
(* SpecLock: NProcs contenders on one lock path, each repeating            *)
(*     with FileLock(path): <critical section>                             *)
(* (FileLock.__enter__ / __exit__, file_lock.py lines 93-100).             *)
(***************************************************************************)

\* FileLock.__enter__: a contender starts acquire().
LockEnter(p) ==
    /\ op[p] = "lock"
    /\ pc[p] \in {"idle", "released", "acq_timeout"}
    /\ pc' = [pc EXCEPT ![p] = "acq_open"]
    /\ UNCHANGED <<lockVars, notLock>>

\* FileLock.__exit__: the holder leaves its critical section and calls
\* release().
LockExit(p) ==
    /\ op[p] = "lock"
    /\ pc[p] = "acquired"
    /\ pc' = [pc EXCEPT ![p] = "rel_unlock"]
    /\ UNCHANGED <<lockVars, notLock>>

InitLock ==
    /\ pc = [p \in Procs |-> "idle"]
    /\ op = [p \in Procs |-> "lock"]
    /\ LockInit
    /\ AwUnused
    /\ WalUnused
    /\ StoreUnused
    /\ OtherUnused

NextLock ==
    \E p \in Procs :
        \/ LockEnter(p)
        \/ LockExit(p)
        \/ AcquireOpen(p)
        \/ AcquireFlock(p)
        \/ AcquireBusy(p)
        \/ AcquireRetry(p)
        \/ AcquireTimeout(p)
        \/ ReleaseUnlock(p)
        \/ ReleaseClose(p)
        \/ ReleaseUnlink(p)

SpecLock == InitLock /\ [][NextLock]_vars

\* Contenders between a successful acquire() and the completion of release().
InLock(l) ==
    {p \in Procs : cur[p] = l /\
                   pc[p] \in {"acquired", "rel_unlock", "rel_close", "rel_unlink"}}

\* Contenders in their critical section: acquire() returned True and
\* release() has not been called yet.
Holders(l) == {p \in Procs : cur[p] = l /\ pc[p] = "acquired"}

\* C1: at most one contender of a lock path is between its successful
\* acquire() and the completion of its release().  Stated on the critical
\* sections alone (which the claim's interval contains): no two contenders
\* are in their critical section at once.
C1_MutualExclusion == \A l \in Locks : Cardinality(Holders(l)) <= 1

(***************************************************************************)
(* WriteAheadLog.append as its callers reach it: through the with_retry    *)
(* wrapper of wal.py line 79, while another user of the WAL (Holder) takes *)
(* and keeps the WAL lock as it likes, so that acquire() can time out.     *)
(***************************************************************************)

Holder == 2

\* @with_retry(max_retries=3, delay=0.1), wal.py line 79.
WalMaxRetries == 3

\* wal.py lines 111-112: whatever the body raised, a lock timeout
\* (ConcurrencyError) included, leaves append as a WALError.
AppendRaises(cause) == "WALError"

\* The caller calls wal.append on a constructed instance: the wrapper starts
\* (file_lock.py lines 167-168) and is about to invoke append.
RetryAppendCall(p) ==
    /\ pc[p] \in {"idle", "done"} /\ op[p] \in {"none", "append"}
    /\ Len(walFile.entries) < MaxWal
    /\ retry' = [retry EXCEPT ![p] =
                    Retry(WalMaxRetries, 0, "none", 1, <<>>, "none")]
    /\ op' = [op EXCEPT ![p] = "construct"]
    /\ pc' = [pc EXCEPT ![p] = "wal_ready"]
    /\ UNCHANGED <<lockVars, awVars, walVars, storeVars, timedVars,
                   targetDir, restVars>>

\* The invocation of append is over (file_lock.py lines 173-186): it
\* returned the id, or raised what lines 111-112 make of the lock timeout.
\* The wrapper returns, raises, or sleeps and invokes append again.
RetryAfterAppend(p) ==
    /\ pc[p] = "app_end" /\ op[p] = "append"
    /\ retry[p].result = "none" /\ retry[p].max_retries = WalMaxRetries
    /\ retry' = [retry EXCEPT ![p] =
                    RetryIteration(@, IF ret[p].status = "ok" THEN "success"
                                      ELSE AppendRaises("ConcurrencyError"))]
    /\ IF retry'[p].result = "none"
          THEN /\ op' = [op EXCEPT ![p] = "construct"]
               /\ pc' = [pc EXCEPT ![p] = "wal_ready"]
          ELSE /\ pc' = [pc EXCEPT ![p] = "done"]
               /\ UNCHANGED op
    /\ UNCHANGED <<lockVars, awVars, walVars, storeVars, timedVars,
                   targetDir, restVars>>

\* A constructed WAL, a caller and a holder of the WAL lock.
InitWalRetry ==
    /\ pc = [p \in Procs |-> "idle"]
    /\ op = [p \in Procs |-> IF p = Holder THEN "lock" ELSE "none"]
    /\ LockInit
    /\ AwUnused
    /\ walFile = WalList(<<>>)
    /\ now = 1
    /\ entry = [p \in Procs |-> NoEntry]
    /\ wal_data = [p \in Procs |-> <<>>]
    /\ ret = [p \in Procs |-> NoRet]
    /\ appended = <<>>
    /\ StoreUnused
    /\ OtherUnused

NextWalRetry ==
    \/ RetryAppendCall(Client)
    \/ \E d \in SeqData : AppendBegin(Client, "INSERT", d)
    \/ AppendRead(Client)
    \/ AppendWrite(Client)
    \/ AppendReturn(Client)
    \/ AppendTimeout(Client)
    \/ RetryAfterAppend(Client)
    \/ LockEnter(Holder)
    \/ LockExit(Holder)
    \/ \E p \in {Client, Holder} :
          \/ AcquireOpen(p)
          \/ AcquireFlock(p)
          \/ AcquireBusy(p)
          \/ AcquireRetry(p)
          \/ AcquireTimeout(p)
          \/ ReleaseUnlock(p)
          \/ ReleaseClose(p)
          \/ ReleaseUnlink(p)

SpecWalRetry == InitWalRetry /\ [][NextWalRetry]_vars

\* C12: an append whose attempts fail because the WAL lock cannot be
\* acquired in time is attempted again, and its WALError reaches the caller
\* only after max_retries further attempts, 1 + 3 invocations in all.
C12_WalRetried ==
    (pc[Client] = "done" /\ retry[Client].result = "WALError") =>
        Len(retry[Client].outcomes) = WalMaxRetries + 1

(***************************************************************************)
(* SpecStoreRestore: store_dialogue calls of two users while a third       *)
(* restores a snapshot into the data directory                             *)
(* (MemoryAgent.restore_snapshot, memory_agent.py lines 349-355, which     *)
(* calls BackupManager.restore_snapshot, backup.py lines 99-138).          *)
(***************************************************************************)

\* The dialogues file of the snapshot: create_snapshot was called right
\* after construction, when the file held the empty list.
Snapshot == DataList(<<>>)

\* restore_snapshot, lines 130-133: shutil.copy2 puts the snapshot's copy in
\* the place of the data file.  No lock is taken and no call is waited for.
RestoreSnapshot(p) ==
    /\ p \in Recoverers
    /\ pc[p] = "idle" /\ op[p] = "none"
    /\ dataFile' = Snapshot
    /\ ret' = [ret EXCEPT ![p] =
                  Ret("restore_snapshot", None, "ok", <<>>, 0, <<0, 0>>, <<>>)]
    /\ op' = [op EXCEPT ![p] = "restore"]
    /\ pc' = [pc EXCEPT ![p] = "done"]
    /\ UNCHANGED <<lockVars, awVars, walFile, now, entry, wal_data, appended,
                   dialogues, otherVars>>

NextStoreRestore ==
    \E p \in Procs :
        \/ \E d \in Data : StoreBegin(p, d)
        \/ AppendRead(p)
        \/ AppendWrite(p)
        \/ AppendReturn(p)
        \/ AppendTimeout(p)
        \/ StoreWalDone(p)
        \/ StoreWalFailed(p)
        \/ StoreRead(p)
        \/ StoreWrite(p)
        \/ StoreReturn(p)
        \/ StoreLockTimeout(p)
        \/ RestoreSnapshot(p)
        \/ AcquireOpen(p)
        \/ AcquireFlock(p)
        \/ AcquireBusy(p)
        \/ AcquireRetry(p)
        \/ AcquireTimeout(p)
        \/ ReleaseUnlock(p)
        \/ ReleaseClose(p)
        \/ ReleaseUnlink(p)

SpecStoreRestore == InitStore /\ [][NextStoreRestore]_vars

\* The contenders that hold the lock of the dialogues file.
DataLockHolders ==
    {p \in Procs : cur[p] = DataLock /\ lock_fd[p] # 0 /\
                   flockBy[DataLock][lock_fd[p]] = p}

\* C16: every step that replaces the dialogues file is taken while some
\* caller holds the lock of that file, and no step replaces the file while a
\* caller is between the read and the write of its locked read-modify-write,
\* other than that caller's own write.
C16_WritesUnderLock ==
    [][(dataFile' # dataFile) =>
          /\ DataLockHolders # {}
          /\ \A q \in Stores :
                (pc[q] = "store_write") => (pc'[q] # "store_write")]_vars

(***************************************************************************)
(* SpecStoreAll: one store_dialogue call by each of three threads on one   *)
(* MemoryAgent, all started together                                       *)
(* (test_memory_agent.py lines 113-151).  The calls are short against the  *)
(* 10 s lock timeouts, so no acquire gives up.                             *)
(***************************************************************************)
Callers == {1, 2, 3}

\* The record thread p stores: 'content': f'Message {index}' (test line 122).
Message(p) == p - 1

\* store_dialogue, lines 96-112, called by thread p with its own record.
ConcurrentStoreBegin(p) ==
    /\ p \in Callers
    /\ pc[p] = "idle" /\ op[p] = "none"
    /\ op' = [op EXCEPT ![p] = "store"]
    /\ entry' = [entry EXCEPT ![p] = WALEntry("INSERT", Message(p), now)]
    /\ cur' = [cur EXCEPT ![p] = WalLock]
    /\ pc' = [pc EXCEPT ![p] = "acq_open"]
    /\ UNCHANGED <<lock_fd, lockFile, flockBy, walFile, now, wal_data, ret,
                   appended, notWal>>

NextStoreAll ==
    \E p \in Procs :
        \/ ConcurrentStoreBegin(p)
        \/ AppendRead(p)
        \/ AppendWrite(p)
        \/ AppendReturn(p)
        \/ StoreWalDone(p)
        \/ StoreRead(p)
        \/ StoreWrite(p)
        \/ StoreReturn(p)
        \/ AcquireOpen(p)
        \/ AcquireFlock(p)
        \/ AcquireBusy(p)
        \/ AcquireRetry(p)
        \/ ReleaseUnlock(p)
        \/ ReleaseClose(p)
        \/ ReleaseUnlink(p)

SpecStoreAll == InitStore /\ [][NextStoreAll]_vars

\* The records of the dialogues file.
Stored == IF dataFile.kind = "list"
             THEN {dataFile.items[k] : k \in 1..Len(dataFile.items)}
             ELSE {}

\* C17: once every one of the concurrent store_dialogue calls has returned,
\* each has returned without error and the dialogues file holds the records
\* of all of them.
C17_NoLostUpdate ==
    (\A p \in Callers : pc[p] = "done") =>
        /\ \A p \in Callers : ret[p].status = "ok"
        /\ \A p \in Callers : Message(p) \in Stored
        /\ Len(dataFile.items) = Cardinality(Callers)

(***************************************************************************)
(* SpecRecover: one client appends entries that name data files and calls  *)
(* BackupManager.recover_from_wal(target, since_timestamp)                 *)
(* (backup.py lines 204-249) on an existing target directory.              *)
(***************************************************************************)
MaxReplay == 2

\* The payloads {'file': ..., 'content': ...} of the client's entries, as
\* numbers: the file is the parity and the content is the half.
ReplayData == {0, 1, 2}

\* data.get('file', 'unknown.json'), lines 242 and 247.
FileOf(d) == IF d % 2 = 0 THEN "memory_dialogues_v2.json"
                          ELSE "memory_profile_v2.json"

\* data.get('content', {}), line 244.
ContentOf(d) == d \div 2

WriteContentAppended(old, c) ==
    [kind |-> "object", items |-> Append(old.items, c)]

\* Lines 243-244: atomic_write of json.dump(content) puts the content in the
\* place of whatever the file held.
WriteContent(old, c) == DataObject(c)

ReplayIntoNoDelete(dir, e) ==
    IF e.operation \in {"INSERT", "UPDATE"}
       THEN [dir EXCEPT ![FileOf(e.data)] = DataObject(ContentOf(e.data))]
       ELSE dir

\* _replay_wal_entry, lines 236-249, on the target directory: INSERT and
\* UPDATE write the content as the named file, DELETE removes the named file
\* if it exists.
ReplayInto(dir, e) ==
    IF e.operation \in {"INSERT", "UPDATE"}
       THEN [dir EXCEPT ![FileOf(e.data)] =
                WriteContent(dir[FileOf(e.data)], ContentOf(e.data))]
       ELSE IF e.operation = "DELETE"
               THEN [dir EXCEPT ![FileOf(e.data)] = DataAbsent]
               ELSE dir

\* A payload that is not a dict, such as a string: wal.append accepts and
\* stores it.
NotADict == 3

\* _replay_wal_entry raises for the entry: data.get (lines 242 and 247) does
\* not exist on a payload that is not a dict.
ReplayRaises(e) ==
    e.data = NotADict /\ e.operation \in {"INSERT", "UPDATE", "DELETE"}

\* recover_from_wal, lines 222-227: for entry in entries, first to last; an
\* entry whose replay raises is logged and passed over.
RECURSIVE ReplayAll(_, _)
ReplayAll(dir, es) ==
    IF es = <<>> THEN dir
    ELSE ReplayAll(IF ReplayRaises(Head(es)) THEN dir
                                             ELSE ReplayInto(dir, Head(es)),
                   Tail(es))

\* A faulty count that includes the entries whose replay raised.
CountAll(es) == Len(es)

\* replayed_count, lines 221-225: incremented after each replay that
\* returned.
CountReplayed(es) == Len(SelectSeq(es, LAMBDA e : ~ReplayRaises(e)))

\* A faulty handler that reports an unreadable WAL as nothing to replay.
RecoverOutcomeSwallowed(since, j, es) ==
    Ret("recover_from_wal", since, "ok", <<>>,
        IF j.ok THEN CountReplayed(es) ELSE 0, <<0, 0>>, <<>>)

\* Lines 229-234: the count is returned; whatever read_entries raised leaves
\* as RecoveryError.
RecoverOutcome(since, j, es) ==
    IF j.ok
       THEN Ret("recover_from_wal", since, "ok", <<>>, CountReplayed(es),
                <<0, 0>>, <<>>)
       ELSE Ret("recover_from_wal", since, "RecoveryError", <<>>, 0, <<0, 0>>,
                <<>>)

\* recover_from_wal(target, since), lines 218-234: what it does to the
\* target directory and what the client gets.
RecoverEffect(since) ==
    LET j == JsonLoad(walFile)
        es == ReadEntries(j.data, since, now)
    IN  /\ targetDir' = IF j.ok THEN ReplayAll(targetDir, es) ELSE targetDir
        /\ ret' = [ret EXCEPT ![Client] = RecoverOutcome(since, j, es)]

\* wal.append(o, {'file': ..., 'content': ...}) by the client.
RecoverAppend(o, d) ==
    /\ Len(walFile.entries) < MaxReplay
    /\ UntrackedAppend(o, d)

\* recover_from_wal(target, since), lines 218-234.
RecoverInto(since) ==
    /\ RecoverEffect(since)
    /\ UNCHANGED <<pc, op, lockVars, awVars, walFile, now, entry, wal_data,
                   appended, storeVars, retry, timedVars, restVars>>

NextRecover ==
    \/ Tick
    \/ \E o \in Operations, d \in ReplayData : RecoverAppend(o, d)
    \/ \E since \in {None} \cup (0..MaxClock) : RecoverInto(since)

SpecRecover == InitWalSeq /\ [][NextRecover]_vars

\* The positions of the WAL entries that name file f and are stamped later
\* than since (all that name f when since is None).
Naming(f, since) ==
    {k \in 1..Len(walFile.entries) :
        /\ FileOf(walFile.entries[k].data) = f
        /\ (since = None \/ walFile.entries[k].timestamp > since)}

\* The greatest element of a non-empty set of positions.
Last(S) == CHOOSE k \in S : \A j \in S : j <= k

\* C20: a recover_from_wal(target, since) that returns leaves every file that
\* an applied entry names with the content of the last such entry, if that is
\* an INSERT or UPDATE, and absent, if that is a DELETE; files that no
\* applied entry names are left alone; the entries applied are those stamped
\* later than since (all, without since), and their number is returned.
C20_RecoverStep ==
    [][(ret' # ret /\ ret'[Client].op = "recover_from_wal"
                   /\ ret'[Client].status = "ok") =>
          LET since == ret'[Client].arg
          IN  /\ \A f \in Files :
                    LET S == Naming(f, since)
                    IN  IF S = {} THEN targetDir'[f] = targetDir[f]
                        ELSE LET e == walFile.entries[Last(S)]
                             IN  IF e.operation = "DELETE"
                                    THEN targetDir'[f] = DataAbsent
                                    ELSE targetDir'[f] =
                                            DataObject(ContentOf(e.data))
              /\ ret'[Client].count =
                    Cardinality(UNION {Naming(f, since) : f \in Files})]_vars

\* C20 witness: a recovery with since_timestamp = 0 has applied both
\* entries, an INSERT of the dialogues file with content 1 and then an
\* UPDATE of it with content 0: the file has the content of the UPDATE, and
\* the profile file, which no entry names, is absent as before.
C20_Witness ==
    /\ ret[Client].op = "recover_from_wal"
    /\ ret[Client].arg = 0
    /\ ret[Client].count = 2
    /\ Len(walFile.entries) = 2
    /\ walFile.entries[1].operation = "INSERT"
    /\ walFile.entries[1].data = 2
    /\ walFile.entries[2].operation = "UPDATE"
    /\ walFile.entries[2].data = 0
    /\ targetDir["memory_dialogues_v2.json"] = DataObject(0)
    /\ targetDir["memory_profile_v2.json"] = DataAbsent

(***************************************************************************)
(* SpecRecoverTwice: the client appends entries, some with a payload whose *)
(* replay raises, the WAL file may be damaged from outside, and the client *)
(* calls recover_from_wal(target, since) twice in succession.              *)
(***************************************************************************)

\* The payloads of the client's entries: those of ReplayData and one that is
\* not a dict.
FaultyData == ReplayData \cup {NotADict}

\* wal.append by the client, before its recoveries.
ScriptAppend(o, d) ==
    /\ pc[Client] = "idle"
    /\ Len(walFile.entries) < MaxReplay
    /\ UntrackedAppend(o, d)

\* n = recover_from_wal(target, since): the first call of a pair.
RecoverFirst(since) ==
    /\ pc[Client] \in {"idle", "recovered_twice"}
    /\ RecoverEffect(since)
    /\ pc' = [pc EXCEPT ![Client] = "recovered_once"]
    /\ UNCHANGED <<op, lockVars, awVars, walFile, now, entry, wal_data,
                   appended, storeVars, retry, timedVars, restVars>>

\* m = recover_from_wal(target, since): the second call, with the arguments
\* of the first.
RecoverSecond ==
    /\ pc[Client] = "recovered_once"
    /\ RecoverEffect(ret[Client].arg)
    /\ pc' = [pc EXCEPT ![Client] = "recovered_twice"]
    /\ UNCHANGED <<op, lockVars, awVars, walFile, now, entry, wal_data,
                   appended, storeVars, retry, timedVars, restVars>>

NextRecoverTwice ==
    \/ Tick
    \/ ExternalCorruption
    \/ \E o \in Operations, d \in FaultyData : ScriptAppend(o, d)
    \/ \E since \in {None} \cup (0..MaxClock) : RecoverFirst(since)
    \/ RecoverSecond

SpecRecoverTwice == InitWalSeq /\ [][NextRecoverTwice]_vars

\* A step that is a call of recover_from_wal.
RecoverCall ==
    /\ pc'[Client] # pc[Client]
    /\ pc'[Client] \in {"recovered_once", "recovered_twice"}

\* C21: when recover_from_wal has returned and is called again with the same
\* arguments on the same WAL, the second call leaves the target directory as
\* the first left it and returns the same count.
C21_RecoverIdempotent ==
    [][(/\ pc[Client] = "recovered_once" /\ pc'[Client] = "recovered_twice"
        /\ ret[Client].status = "ok" /\ ret'[Client].status = "ok")
       => (targetDir' = targetDir /\ ret'[Client].count = ret[Client].count)]_vars

\* C21 witness: the second of two recoveries has returned; both replayed two
\* entries and the target holds the dialogues file.
C21_Witness ==
    /\ pc[Client] = "recovered_twice"
    /\ ret[Client].status = "ok"
    /\ ret[Client].count = 2
    /\ targetDir["memory_dialogues_v2.json"].kind = "object"

\* The positions of the WAL entries that name file f, are stamped later than
\* since and whose replay does not raise.
Applied(f, since) ==
    {k \in Naming(f, since) : ~ReplayRaises(walFile.entries[k])}

\* The positions of the WAL entries stamped later than since whose replay
\* does not raise.
AppliedAll(since) ==
    {k \in 1..Len(walFile.entries) :
        /\ (since = None \/ walFile.entries[k].timestamp > since)
        /\ ~ReplayRaises(walFile.entries[k])}

\* C22: a recover_from_wal that returns has passed over the entries whose
\* replay raised and applied all the others in order: every file is as the
\* last applied entry naming it says, files that no applied entry names are
\* left alone, and the count returned is the number of applied entries.
C22_FailedReplaySkipped ==
    [][(RecoverCall /\ ret'[Client].status = "ok") =>
          LET since == ret'[Client].arg
          IN  /\ \A f \in Files :
                    LET S == Applied(f, since)
                    IN  IF S = {} THEN targetDir'[f] = targetDir[f]
                        ELSE LET e == walFile.entries[Last(S)]
                             IN  IF e.operation = "DELETE"
                                    THEN targetDir'[f] = DataAbsent
                                    ELSE targetDir'[f] =
                                            DataObject(ContentOf(e.data))
              /\ ret'[Client].count = Cardinality(AppliedAll(since))]_vars

\* C22 witness: the WAL holds an entry whose replay raises followed by an
\* UPDATE of the dialogues file; the recovery has returned 1 and the file
\* has the content of the UPDATE.
C22_Witness ==
    /\ pc[Client] = "recovered_once"
    /\ ret[Client].status = "ok"
    /\ ret[Client].arg = None
    /\ ret[Client].count = 1
    /\ Len(walFile.entries) = 2
    /\ ReplayRaises(walFile.entries[1])
    /\ walFile.entries[2].operation = "UPDATE"
    /\ walFile.entries[2].data = 2
    /\ targetDir["memory_dialogues_v2.json"] = DataObject(1)

\* C23: a recover_from_wal on a WAL file that cannot be read raises
\* RecoveryError and leaves the target directory as it was; it returns a
\* count, 0 included, only when the WAL file was read.
C23_UnreadableWalRaises ==
    [][RecoverCall =>
          /\ (walFile.kind # "list") =>
                (ret'[Client].status = "RecoveryError" /\ targetDir' = targetDir)
          /\ (ret'[Client].status = "ok") => (walFile.kind = "list")]_vars

\* C23 witness: the WAL file is damaged, the recovery has raised
\* RecoveryError and the target still holds what an earlier recovery wrote.
C23_Witness ==
    /\ pc[Client] = "recovered_once"
    /\ ret[Client].op = "recover_from_wal"
    /\ ret[Client].status = "RecoveryError"
    /\ walFile.kind = "corrupt"
    /\ targetDir["memory_dialogues_v2.json"].kind = "object"

(***************************************************************************)
(* SpecBackup: BackupManager's snapshots (src/src/jojiai/backup.py lines   *)
(* 50-202), called by one client on one backup directory.  The data        *)
(* directory is whatever it is at the start and is not written meanwhile.  *)
(***************************************************************************)

\* Line 75: item.suffix in ['.json', '.md', '.txt'].
Allowed(f) == f.suffix \in {".json", ".md", ".txt"}

\* Lines 73-76: the files of the data directory that are copied.
Copyable == {f \in DataNames : Allowed(f) /\ dataDir[f] # NoFile}

\* len(list(snapshot_dir.glob('*'))): the files of a snapshot directory.
FilesCount(d) ==
    Cardinality({f \in DataNames \ {MetadataName} : d.files[f] # NoFile})
    + (IF d.meta # "missing" THEN 1 ELSE 0)

\* Line 70: mkdir(parents=True, exist_ok=True) keeps a directory that is
\* there, with what it holds.
AfterMkdir(n) ==
    IF backupDir[n].exists
       THEN backupDir[n]
       ELSE SnapDir(EmptyDir, "missing", 0, 0, now)

\* Line 76: shutil.copy2 of the files S into the directory d; a data file
\* named metadata.json lands on the metadata of the directory.
CopyInto(d, S) ==
    [d EXCEPT !.files = [f \in DataNames |->
                            IF f \in S THEN dataDir[f] ELSE @[f]],
              !.meta = IF MetadataName \in S THEN "data" ELSE @,
              !.timestamp = IF MetadataName \in S THEN 0 ELSE @,
              !.files_count = IF MetadataName \in S THEN 0 ELSE @,
              !.mtime = IF S # {} THEN now ELSE @]

\* Lines 79-88: the metadata replaces whatever metadata.json the directory
\* holds; files_count is taken before it is written.
WriteMetadata(d) ==
    [d EXCEPT !.files = [@ EXCEPT ![MetadataName] = NoFile],
              !.meta = "ok",
              !.timestamp = now,
              !.files_count = FilesCount(d),
              !.mtime = now]

\* The steps of create_snapshot at which an exception can be raised;
\* _get_wal_position (lines 251-257) swallows its own and returns 0.
FailPoints == {"none", "mkdir", "copy", "metadata"}

\* The snapshot directory when the try block is left: whole, or as the
\* failing step found it, with the files S copied before a failing copy.
TryBlock(n, fail, S) ==
    CASE fail = "mkdir" -> backupDir[n]
      [] fail = "copy" -> CopyInto(AfterMkdir(n), S)
      [] fail = "metadata" -> CopyInto(AfterMkdir(n), Copyable)
      [] OTHER -> WriteMetadata(CopyInto(AfterMkdir(n), Copyable))

\* A faulty handler that leaves what the try block made.
HandlerKeeps(d) == d

\* Lines 93-96: the handler removes the snapshot directory if it exists.
Handler(d) == IF d.exists THEN SnapAbsent ELSE d

\* create_snapshot(n), lines 50-97.  mkdir fails only where there is no
\* directory yet.
CreateSnapshot(n, fail, S) ==
    /\ fail = "mkdir" => ~backupDir[n].exists
    /\ S \subseteq Copyable
    /\ (fail # "copy") => (S = {})
    /\ backupDir' = [backupDir EXCEPT ![n] =
                        IF fail = "none"
                           THEN TryBlock(n, fail, S)
                           ELSE Handler(TryBlock(n, fail, S))]
    /\ ret' = [ret EXCEPT ![Client] =
                  Ret("create_snapshot", n,
                      IF fail = "none" THEN "ok" ELSE "BackupError",
                      <<>>, 0, <<0, 0>>, <<>>)]
    /\ UNCHANGED <<pc, op, lockVars, awVars, walFile, now, entry, wal_data,
                   appended, storeVars, retry, timedVars, targetDir, dataDir,
                   freshDir, config, fdVars, stop_flush, stop_backup>>

\* Somebody else removes or garbles the metadata.json of a snapshot.
DamageMetadata(n, k) ==
    /\ backupDir[n].exists
    /\ backupDir[n].meta = "ok"
    /\ k \in {"missing", "corrupt"}
    /\ backupDir' = [backupDir EXCEPT ![n] =
                        [@ EXCEPT !.meta = k,
                                  !.timestamp = 0,
                                  !.files_count = 0,
                                  !.mtime = IF k = "missing" THEN now ELSE @]]
    /\ UNCHANGED <<pc, op, lockVars, awVars, walVars, storeVars, retry,
                   timedVars, targetDir, dataDir, freshDir, config, fdVars,
                   stop_flush, stop_backup>>

\* Lines 129-132: every file of the snapshot but metadata.json is copied.
Restored(d) ==
    [f \in DataNames |-> IF f = MetadataName THEN NoFile ELSE d.files[f]]

\* Lines 117-121: the metadata, if there is one, is parsed and its timestamp
\* is logged.
MetadataReadable(d) == d.meta \in {"missing", "ok"}

\* restore_snapshot(n, fresh_dir), lines 99-138, into a directory that is
\* empty when the call starts.
RestoreFresh(n) ==
    LET d == backupDir[n]
        done == d.exists /\ MetadataReadable(d)
    IN  /\ freshDir' = IF done THEN Restored(d) ELSE EmptyDir
        /\ ret' = [ret EXCEPT ![Client] =
                      Ret("restore_snapshot", n,
                          IF done THEN "ok" ELSE "RecoveryError",
                          <<>>, 0, <<0, 0>>, <<>>)]
        /\ UNCHANGED <<pc, op, lockVars, awVars, walFile, now, entry,
                       wal_data, appended, storeVars, retry, timedVars,
                       targetDir, dataDir, backupDir, config, fdVars, stop_flush,
                       stop_backup>>

\* Lines 150-165: the directories that get an entry.  One whose
\* metadata.json does not parse is logged and gets none.
Listed(dir) == {n \in SnapNames : dir[n].exists /\ dir[n].meta # "corrupt"}

\* Lines 153-165: the metadata as parsed, or the basic metadata of a
\* directory without metadata.json.  A data file under the name of the
\* metadata has none of the keys.
EntryOf(dir, n) ==
    CASE dir[n].meta = "ok" ->
            [snapshot_name |-> n, timestamp |-> dir[n].timestamp,
             files_count |-> dir[n].files_count]
      [] dir[n].meta = "data" ->
            [snapshot_name |-> 0, timestamp |-> 0, files_count |-> 0]
      [] OTHER ->
            [snapshot_name |-> n, timestamp |-> dir[n].mtime,
             files_count |-> FilesCount(dir[n])]

\* The orders in which iterdir() can give the members of S.
Orders(S) ==
    {s \in [1..Cardinality(S) -> S] :
        \A i, j \in 1..Cardinality(S) : (i # j) => (s[i] # s[j])}

\* Line 168: sort(key=timestamp, reverse=True) is stable: entries of one
\* timestamp stay in the order of iterdir().
NewestFirst(es) ==
    \A i, j \in 1..Len(es) : (i < j) => (es[i].timestamp >= es[j].timestamp)

\* list_snapshots(), lines 140-173: the lists it can return.
ListSnapshotsOf(dir) ==
    {es \in {[i \in 1..Cardinality(Listed(dir)) |-> EntryOf(dir, s[i])] :
                s \in Orders(Listed(dir))} : NewestFirst(es)}

ListSnapshots ==
    /\ \E es \in ListSnapshotsOf(backupDir) :
          ret' = [ret EXCEPT ![Client] =
                     Ret("list_snapshots", None, "ok", es, 0, <<0, 0>>, <<>>)]
    /\ UNCHANGED <<pc, op, lockVars, awVars, walFile, now, entry, wal_data,
                   appended, storeVars, otherVars>>

\* Lines 187-200: the names of snapshots[keep_count:].
ToRemove(es, k) ==
    IF Len(es) > k
       THEN {es[i].snapshot_name : i \in (k + 1)..Len(es)}
       ELSE {}

\* Lines 190-198: those of the names that are directories are removed.
Removed(dir, es, k) ==
    {n \in ToRemove(es, k) : n \in SnapNames /\ dir[n].exists}

Without(dir, gone) ==
    [n \in SnapNames |-> IF n \in gone THEN SnapAbsent ELSE dir[n]]

\* cleanup_old_snapshots(k), lines 175-202.
CleanupOldSnapshots(k) ==
    /\ \E es \in ListSnapshotsOf(backupDir) :
          LET gone == Removed(backupDir, es, k)
          IN  /\ backupDir' = Without(backupDir, gone)
              /\ ret' = [ret EXCEPT ![Client] =
                            Ret("cleanup_old_snapshots", k, "ok", <<>>,
                                Cardinality(gone), <<0, 0>>, <<>>)]
    /\ UNCHANGED <<pc, op, lockVars, awVars, walFile, now, entry, wal_data,
                   appended, storeVars, retry, timedVars, targetDir, dataDir,
                   freshDir, config, fdVars, stop_flush, stop_backup>>

\* The data directory holds any files; its log is there.
InitBackup ==
    /\ pc = [p \in Procs |-> "idle"]
    /\ op = [p \in Procs |-> "none"]
    /\ LockInit
    /\ AwUnused
    /\ WalUnused
    /\ StoreUnused
    /\ retry = [p \in Procs |-> NoRetry]
    /\ waited = [p \in Procs |-> 0]
    /\ timeout = [p \in Procs |-> 0]
    /\ held = [p \in Procs |-> 0]
    /\ targetDir = [f \in Files |-> DataAbsent]
    /\ dataDir \in [DataNames -> {NoFile} \cup Contents]
    /\ dataDir[[stem |-> "memory", suffix |-> ".wal"]] = 1
    /\ backupDir = [n \in SnapNames |-> SnapAbsent]
    /\ freshDir = EmptyDir
    /\ config = max_dialogues
    /\ FdUnused
    /\ stop_flush = FALSE
    /\ stop_backup = FALSE

KeepCounts == 0..2

NextBackup ==
    \/ Tick
    \/ \E n \in SnapNames, fail \in FailPoints, S \in SUBSET DataNames :
          CreateSnapshot(n, fail, S)
    \/ \E n \in SnapNames, k \in MetaKinds : DamageMetadata(n, k)
    \/ \E n \in SnapNames : RestoreFresh(n)
    \/ ListSnapshots
    \/ \E k \in KeepCounts : CleanupOldSnapshots(k)

SpecBackup == InitBackup /\ [][NextBackup]_vars

\* A call of create_snapshot(n), whatever becomes of it.
CreateCall(n) ==
    \E fail \in FailPoints, S \in SUBSET DataNames : CreateSnapshot(n, fail, S)

C25_RestoreReproduces ==
    [][\A n \in SnapNames :
          (RestoreFresh(n) /\ backupDir[n].exists /\ backupDir[n].meta = "ok")
             => \A f \in Copyable : freshDir'[f] = dataDir[f]]_vars

\* The snapshot directories under the backup path.
SnapshotDirs(dir) == {n \in SnapNames : dir[n].exists}

\* C26: list_snapshots returns one entry for every snapshot directory, one
\* without metadata.json or with an unparseable one included, these with the
\* mtime of the directory as timestamp, and the entries are ordered newest
\* first.
C26_ListsEveryDirectory ==
    [][ListSnapshots =>
          LET es == ret'[Client].entries
          IN  /\ ret'[Client].status = "ok"
              /\ Len(es) = Cardinality(SnapshotDirs(backupDir))
              /\ {es[i].snapshot_name : i \in 1..Len(es)}
                    = SnapshotDirs(backupDir)
              /\ \A i \in 1..Len(es) :
                    backupDir[es[i].snapshot_name].meta # "ok"
                       => es[i].timestamp
                             = backupDir[es[i].snapshot_name].mtime
              /\ NewestFirst(es)]_vars

\* The timestamp of a snapshot directory: that of its metadata, or the
\* mtime of a directory whose metadata is missing or unparseable.
Stamp(dir, n) == IF dir[n].meta = "ok" THEN dir[n].timestamp ELSE dir[n].mtime

\* C27: cleanup_old_snapshots(k) on more than k snapshot directories leaves
\* exactly k of them, none of them older than one it removed, and returns
\* the number of directories removed.
C27_CleanupKeepsNewest ==
    [][\A k \in KeepCounts :
          (CleanupOldSnapshots(k)
              /\ Cardinality(SnapshotDirs(backupDir)) > k)
             => LET kept == SnapshotDirs(backupDir')
                    removed == SnapshotDirs(backupDir) \ kept
                IN  /\ Cardinality(kept) = k
                    /\ \A n \in kept, m \in removed :
                          Stamp(backupDir, n) >= Stamp(backupDir, m)
                    /\ ret'[Client].count = Cardinality(removed)]_vars

(***************************************************************************)
(* SpecStoreLimit: store_dialogue (src/src/jojiai/memory_agent.py lines    *)
(* 84-137) called by one thread, one call after the other, on an agent     *)
(* configured with max_dialogues = M (tests/test_memory_agent.py lines     *)
(* 187-203).                                                               *)
(***************************************************************************)

\* The configured limits.
MaxLimit == 2

Limits == 0..MaxLimit

\* store_dialogue(d) at clock value now: the segment is logged, the list is
\* read, extended, trimmed and written back.  The caller keeps a list of
\* what it stored.
SeqStore(d) ==
    /\ Len(walFile.entries) < MaxWal
    /\ LET e == WALEntry("INSERT", d, now)
           j == JsonLoad(walFile)
       IN  IF j.ok /\ dataFile.kind = "list"
              THEN /\ walFile' = WalList(Append(j.data, e))
                   /\ dataFile' = DataList(Trim(Append(dataFile.items, d)))
                   /\ appended' =
                         Append(appended,
                                [id |-> e.id, operation |-> "INSERT",
                                 data |-> d, timestamp |-> now])
                   /\ ret' = [ret EXCEPT ![Client] =
                                 Ret("store_dialogue", None, "ok", <<>>, 0,
                                     DialogueId(now), <<>>)]
              ELSE /\ ret' = [ret EXCEPT ![Client] =
                                 Ret("store_dialogue", None, "MemoryError",
                                     <<>>, 0, <<0, 0>>, <<>>)]
                   /\ walFile' = IF j.ok THEN WalList(Append(j.data, e))
                                         ELSE walFile
                   /\ UNCHANGED <<dataFile, appended>>
    /\ UNCHANGED <<pc, op, lockVars, awVars, now, entry, wal_data, dialogues,
                   retry, timedVars, targetDir, backupVars, config, fdVars, stop_flush,
                   stop_backup>>

\* The state after MemoryAgent(memory_path, {'max_dialogues': M}) on an
\* empty directory.
InitStoreLimit ==
    /\ pc = [p \in Procs |-> "idle"]
    /\ op = [p \in Procs |-> "none"]
    /\ LockInit
    /\ AwUnused
    /\ walFile = WalList(<<>>)
    /\ now = 1
    /\ entry = [p \in Procs |-> NoEntry]
    /\ wal_data = [p \in Procs |-> <<>>]
    /\ ret = [p \in Procs |-> NoRet]
    /\ appended = <<>>
    /\ dataFile = DataList(<<>>)
    /\ dialogues = [p \in Procs |-> <<>>]
    /\ retry = [p \in Procs |-> NoRetry]
    /\ waited = [p \in Procs |-> 0]
    /\ timeout = [p \in Procs |-> 0]
    /\ held = [p \in Procs |-> 0]
    /\ targetDir = [f \in Files |-> DataAbsent]
    /\ dataDir = EmptyDir
    /\ backupDir = [n \in SnapNames |-> SnapAbsent]
    /\ freshDir = EmptyDir
    /\ config \in Limits
    /\ FdUnused
    /\ stop_flush = FALSE
    /\ stop_backup = FALSE

NextStoreLimit ==
    \/ Tick
    \/ \E d \in Data : SeqStore(d)

SpecStoreLimit == InitStoreLimit /\ [][NextStoreLimit]_vars

\* What the caller stored, in the order of the calls.
StoredData == [i \in 1..Len(appended) |-> appended[i].data]

\* The last m elements of xs, all of xs if it has fewer.
LastOf(xs, m) ==
    IF m >= Len(xs) THEN xs ELSE SubSeq(xs, Len(xs) - m + 1, Len(xs))

\* C28: after any sequence of store_dialogue calls with max_dialogues = M
\* the stored list holds at most M records, and they are the M most recently
\* stored ones in the order they were stored.
C28_AtMostLimit ==
    /\ Len(dataFile.items) <= config
    /\ dataFile.items = LastOf(StoredData, config)

\* C29: an exception raised by the caller's block inside atomic_write
\* reaches the caller as an exception of the same kind, and the call leaves
\* the target path as it was: absent if it was absent.
C29_BodyExceptionKept ==
    [][\A p \in Writers, e \in BodyExceptions :
          AwBodyRaise(p, e) =>
             /\ ret'[p].status = e
             /\ TargetDoc' = TargetDoc]_vars

(***************************************************************************)
(* SpecClose: the background threads of a BackupManager and of the         *)
(* WriteAheadLog it owns (src/src/jojiai/wal.py lines 72-75 and 182-203,   *)
(* src/src/jojiai/backup.py lines 43-46 and 259-281), and a client that    *)
(* closes the WAL, the manager, or both.                                   *)
(***************************************************************************)

FlushThread == 2

BackupThread == 3

\* cleanup_old_snapshots(keep_count=10), backup.py line 267.
AutoKeepCount == 10

\* A faulty loop whose wait never reports the event.
WaitIgnoresEvent(ev) == FALSE

\* threading.Event.wait(interval) returns True as soon as the event is set,
\* and False when the interval has passed with the event not set.
WaitReturns(ev) == ev

\* wal.py line 184: wait(flush_interval) returned False; an iteration starts.
FlushWake ==
    /\ pc[FlushThread] = "flush_wait"
    /\ ~WaitReturns(stop_flush)
    /\ pc' = [pc EXCEPT ![FlushThread] = "flush_truncate"]
    /\ UNCHANGED <<op, lockVars, awVars, walVars, storeVars, otherVars>>

\* A faulty loop without the handler: an exception ends the thread.
LoopAfterUncaught(status, wait) == IF status = "ok" THEN wait ELSE "stopped"

\* wal.py lines 195-196 and backup.py lines 269-270: `except Exception`
\* logs what the cycle raised; either way the loop goes back to its wait.
LoopAfter(status, wait) == wait

\* wal.py lines 185-196: truncate(now - 7 days); whatever it raises (the
\* WAL file does not parse, or its lock timed out: fails) is logged.
FlushTruncate(fails) ==
    /\ pc[FlushThread] = "flush_truncate"
    /\ LET j == JsonLoad(walFile)
           before == now - OldAge
           kept == TruncateFilter(j.data, before)
       IN  IF j.ok /\ ~fails
              THEN /\ walFile' = WalList(kept)
                   /\ ret' = [ret EXCEPT ![FlushThread] =
                                 Ret("truncate", before, "ok", <<>>,
                                     Len(j.data) - Len(kept), <<0, 0>>, <<>>)]
              ELSE /\ ret' = [ret EXCEPT ![FlushThread] =
                                 Ret("truncate", before, "WALError", <<>>, 0,
                                     <<0, 0>>, <<>>)]
                   /\ UNCHANGED walFile
    /\ pc' = [pc EXCEPT ![FlushThread] =
                 LoopAfter(ret'[FlushThread].status, "flush_wait")]
    /\ UNCHANGED <<op, lockVars, awVars, now, entry, wal_data, appended,
                   storeVars, otherVars>>

\* wal.py line 184: wait returned True; _background_flush returns.
FlushStop ==
    /\ pc[FlushThread] = "flush_wait"
    /\ WaitReturns(stop_flush)
    /\ pc' = [pc EXCEPT ![FlushThread] = "stopped"]
    /\ UNCHANGED <<op, lockVars, awVars, walVars, storeVars, otherVars>>

\* backup.py line 261: wait(backup_interval) returned False.
BackupWake ==
    /\ pc[BackupThread] = "backup_wait"
    /\ ~WaitReturns(stop_backup)
    /\ pc' = [pc EXCEPT ![BackupThread] = "backup_run"]
    /\ UNCHANGED <<op, lockVars, awVars, walVars, storeVars, otherVars>>

\* backup.py lines 262-270: create_snapshot(auto_<time>) and, if it
\* returned, cleanup_old_snapshots(10); whatever is raised is logged, and
\* the loop goes back to the wait.
BackupRun(n, fail, S) ==
    /\ pc[BackupThread] = "backup_run"
    /\ fail = "mkdir" => ~backupDir[n].exists
    /\ S \subseteq Copyable
    /\ (fail # "copy") => (S = {})
    /\ LET made == [backupDir EXCEPT ![n] = TryBlock(n, fail, S)]
       IN  IF fail = "none"
              THEN /\ \E es \in ListSnapshotsOf(made) :
                         backupDir' =
                            Without(made, Removed(made, es, AutoKeepCount))
                   /\ ret' = [ret EXCEPT ![BackupThread] =
                                 Ret("create_snapshot", n, "ok", <<>>, 0,
                                     <<0, 0>>, <<>>)]
              ELSE /\ backupDir' =
                         [backupDir EXCEPT ![n] =
                             Handler(TryBlock(n, fail, S))]
                   /\ ret' = [ret EXCEPT ![BackupThread] =
                                 Ret("create_snapshot", n, "BackupError", <<>>,
                                     0, <<0, 0>>, <<>>)]
    /\ pc' = [pc EXCEPT ![BackupThread] =
                 LoopAfter(ret'[BackupThread].status, "backup_wait")]
    /\ UNCHANGED <<op, lockVars, awVars, walFile, now, entry, wal_data,
                   appended, storeVars, retry, timedVars, targetDir, dataDir,
                   freshDir, config, fdVars, stop_flush, stop_backup>>

\* backup.py line 261: wait returned True; _background_backup returns.
BackupStop ==
    /\ pc[BackupThread] = "backup_wait"
    /\ WaitReturns(stop_backup)
    /\ pc' = [pc EXCEPT ![BackupThread] = "stopped"]
    /\ UNCHANGED <<op, lockVars, awVars, walVars, storeVars, otherVars>>

\* WriteAheadLog.close(), wal.py line 200, called by the client on the WAL
\* of the manager: the event is set.
WalClose ==
    /\ pc[Client] = "idle"
    /\ stop_flush' = TRUE
    /\ op' = [op EXCEPT ![Client] = "wal_close"]
    /\ pc' = [pc EXCEPT ![Client] = "wal_join"]
    /\ UNCHANGED <<lockVars, awVars, walVars, storeVars, retry, timedVars,
                   targetDir, backupVars, config, fdVars, stop_backup>>

\* wal.py lines 201-203: join(timeout=5.0) returns, with the thread ended or
\* still in its iteration, and close() returns.
WalJoin ==
    /\ pc[Client] = "wal_join"
    /\ pc' = [pc EXCEPT ![Client] =
                 IF op[Client] = "wal_close" THEN "idle" ELSE "closed"]
    /\ op' = [op EXCEPT ![Client] =
                 IF op[Client] = "wal_close" THEN "none" ELSE @]
    /\ UNCHANGED <<lockVars, awVars, walVars, storeVars, otherVars>>

\* BackupManager.close(), backup.py line 274: the event is set.
BackupClose ==
    /\ pc[Client] = "idle"
    /\ stop_backup' = TRUE
    /\ op' = [op EXCEPT ![Client] = "backup_close"]
    /\ pc' = [pc EXCEPT ![Client] = "backup_join"]
    /\ UNCHANGED <<lockVars, awVars, walVars, storeVars, retry, timedVars,
                   targetDir, backupVars, config, fdVars, stop_flush>>

\* backup.py lines 275-279: join(timeout=5.0) returns, with the thread ended
\* or still in its iteration; self.wal.close() sets the event of the WAL.
BackupJoin ==
    /\ pc[Client] = "backup_join"
    /\ stop_flush' = TRUE
    /\ pc' = [pc EXCEPT ![Client] = "wal_join"]
    /\ UNCHANGED <<op, lockVars, awVars, walVars, storeVars, retry, timedVars,
                   targetDir, backupVars, config, fdVars, stop_backup>>

\* The state after BackupManager(data_path, backup_path, wal_path): both
\* threads are in their first wait.
InitClose ==
    /\ pc = [p \in Procs |->
                CASE p = FlushThread -> "flush_wait"
                  [] p = BackupThread -> "backup_wait"
                  [] OTHER -> "idle"]
    /\ op = [p \in Procs |-> "none"]
    /\ LockInit
    /\ AwUnused
    /\ walFile = WalList(<<>>)
    /\ now = 1
    /\ entry = [p \in Procs |-> NoEntry]
    /\ wal_data = [p \in Procs |-> <<>>]
    /\ ret = [p \in Procs |-> NoRet]
    /\ appended = <<>>
    /\ StoreUnused
    /\ OtherUnused

\* wal.append by the client while the WAL is open (tests/test_wal.py lines
\* 305-313).
CycleAppend ==
    /\ pc[Client] = "idle"
    /\ ~stop_flush
    /\ UntrackedAppend("INSERT", 0)

\* The steps of each thread and the steps inside a close() call.
FlushNext ==
    \/ FlushWake
    \/ \E fails \in BOOLEAN : FlushTruncate(fails)
    \/ FlushStop

BackupNext ==
    \/ BackupWake
    \/ \E n \in SnapNames, fail \in FailPoints, S \in SUBSET Copyable :
          BackupRun(n, fail, S)
    \/ BackupStop

CloseNext ==
    \/ WalJoin
    \/ BackupJoin

NextClose ==
    \/ CycleAppend
    \/ FlushWake
    \/ \E fails \in BOOLEAN : FlushTruncate(fails)
    \/ FlushStop
    \/ BackupWake
    \/ \E n \in SnapNames, fail \in FailPoints, S \in SUBSET Copyable :
          BackupRun(n, fail, S)
    \/ BackupStop
    \/ WalClose
    \/ WalJoin
    \/ BackupClose
    \/ BackupJoin

\* The threads are scheduled, an iteration ends (every wait in it has a
\* timeout), and a close() that was called goes on: join has a timeout.
SpecClose ==
    /\ InitClose
    /\ [][NextClose]_vars
    /\ WF_vars(FlushNext)
    /\ WF_vars(BackupNext)
    /\ WF_vars(CloseNext)

\* The compaction thread has returned: it runs no truncate any more.
FlushStopped == pc[FlushThread] = "stopped"

BackupStopped == pc[BackupThread] = "stopped"

\* C30: once close() has been called on the WAL (its event is set, and an
\* event that is set stays set), its compaction thread eventually stops and
\* from then on stays stopped and makes no truncate call; once close() has
\* been called on the manager, its snapshot thread and the compaction thread
\* of its WAL eventually stop for good.
C30_CloseStopsThreads ==
    /\ [][/\ stop_flush => stop_flush'
          /\ stop_backup => stop_backup']_vars
    /\ <>[](/\ stop_flush => FlushStopped
            /\ stop_backup => (BackupStopped /\ FlushStopped))
    /\ [][FlushStopped => /\ FlushStopped'
                          /\ ret'[FlushThread] = ret[FlushThread]]_vars

\* C30: the manager has been closed after its threads ran a truncate and
\* took a snapshot; both threads have stopped.
C30_Witness ==
    /\ pc[Client] = "closed"
    /\ stop_backup /\ stop_flush
    /\ FlushStopped /\ BackupStopped
    /\ ret[FlushThread].op = "truncate"
    /\ \E n \in SnapNames : backupDir[n].exists

\* A cycle of a background thread has raised and nothing has replaced its
\* outcome since.
FlushFailed == ret[FlushThread].status = "WALError"

BackupFailed == ret[BackupThread].status = "BackupError"

\* C31: a cycle of the compaction thread or of the snapshot thread, whether
\* it raised or not, ends in the wait of the loop, never in the end of the
\* thread; as long as close() has not been called each thread comes to a
\* further cycle again and again; and an append by the caller that follows
\* a failed cycle returns normally with its entry written.
C31_FailureCaught ==
    /\ [][/\ (pc[FlushThread] = "flush_truncate"
                 /\ pc'[FlushThread] # "flush_truncate")
             => pc'[FlushThread] = "flush_wait"
          /\ (pc[BackupThread] = "backup_run"
                 /\ pc'[BackupThread] # "backup_run")
             => pc'[BackupThread] = "backup_wait"]_vars
    /\ []<>(pc[FlushThread] = "flush_truncate" \/ stop_flush)
    /\ []<>(pc[BackupThread] = "backup_run" \/ stop_backup)
    /\ [][((FlushFailed \/ BackupFailed) /\ ret'[Client] # ret[Client])
             => /\ ret'[Client].status = "ok"
                /\ Len(walFile'.entries) = Len(walFile.entries) + 1]_vars

\* C31: both threads have had a cycle that raised, the compaction thread is
\* in a further cycle, the caller has appended, and nothing is closed.
C31_Witness ==
    /\ FlushFailed /\ BackupFailed
    /\ pc[FlushThread] = "flush_truncate"
    /\ pc[BackupThread] = "backup_wait"
    /\ ret[Client].status = "ok"
    /\ Len(ret[Client].before) >= 1
    /\ ~stop_flush /\ ~stop_backup

\* Process p holds the flock of lock l.
Holds(p, l) == \E i \in Inodes : flockBy[l][i] = p

\* Process p is inside FileLock.acquire.
Waiting(p) == pc[p] \in {"acq_open", "acq_flock", "acq_sleep"}

\* C40: a process holds the flock of no lock but the one its current
\* FileLock is on, a process inside acquire holds none, and nobody that
\* holds the lock a process waits for is itself waiting: store_dialogue has
\* given up the WAL lock when it asks for the lock of the data file.
C40_NoHoldAndWait ==
    \A p \in Procs :
       /\ \A l \in Locks : Holds(p, l) => cur[p] = l
       /\ Waiting(p) => \A l \in Locks : ~Holds(p, l)
       /\ Waiting(p) => \A q \in Procs : Holds(q, cur[p]) => ~Waiting(q)

\* C40: store 1 is in its critical section on the data file, after its WAL
\* append, while store 2 polls.
C40_Witness ==
    /\ op[1] = "store" /\ pc[1] = "acquired" /\ cur[1] = DataLock
    /\ Holds(1, DataLock)
    /\ Len(walFile.entries) >= 1
    /\ op[2] = "store" /\ pc[2] = "acq_sleep"

\* C39: a create_snapshot(n) that raises BackupError while a completed
\* snapshot n exists leaves the directory of that snapshot, its files and
\* its metadata as they were.
C39_FailedCreateKeepsEarlier ==
    [][\A n \in SnapNames :
          (/\ CreateCall(n)
           /\ backupDir[n].exists
           /\ backupDir[n].meta = "ok"
           /\ ret'[Client].status = "BackupError")
             => backupDir'[n] = backupDir[n]]_vars

\* C36: the write of a compaction cycle removes from the WAL file no entry
\* whose timestamp is at or after the threshold of that cycle (its current
\* time minus 7 days), an entry appended during the cycle included.
C36_KeepsRetentionWindow ==
    [][\A p \in Maintainers :
          (pc[p] = "trunc_write" /\ pc'[p] # "trunc_write")
             => \A k \in 1..Len(walFile.entries) :
                   walFile.entries[k].timestamp >= ret[p].arg
                      => \E j \in 1..Len(walFile'.entries) :
                            walFile'.entries[j] = walFile.entries[k]]_vars

(***************************************************************************)
(* SpecLegacy: the legacy MemoryAgent (src/memory_agent.py).  Every        *)
(* process calls update_memory once on the list segment "logs" with an     *)
(* entry of its own, here its number.  The segment file exists and holds   *)
(* the empty list.  The lock is a blocking flock on the segment file       *)
(* itself, held from the flock call of _locked_file to the end of its      *)
(* `with` block; pc tells who holds it.                                    *)
(***************************************************************************)

\* A segment file of length 0: what open(path, "w") leaves.
DataEmpty == [kind |-> "empty", items |-> <<>>]

\* The processes between flock(LOCK_EX) and flock(LOCK_UN) of _locked_file.
LegacyHolders == {p \in Procs : pc[p] \in {"read_locked", "write_locked"}}

\* update_memory(segment, entry), line 71: _read_json opens the file for
\* reading.
LegacyBegin(p) ==
    /\ pc[p] = "idle"
    /\ ret[p] = NoRet
    /\ pc' = [pc EXCEPT ![p] = "read_open"]
    /\ op' = [op EXCEPT ![p] = "update_memory"]
    /\ UNCHANGED <<lockVars, awVars, walVars, storeVars, otherVars>>

\* _locked_file line 33: the blocking flock returns when nobody else holds
\* the lock.
LegacyReadLock(p) ==
    /\ pc[p] = "read_open"
    /\ LegacyHolders = {}
    /\ pc' = [pc EXCEPT ![p] = "read_locked"]
    /\ UNCHANGED <<op, lockVars, awVars, walVars, storeVars, otherVars>>

\* _read_json line 56 and update_memory lines 72-80: json.load under the
\* lock, which the end of the `with` releases; then the entry is appended
\* to the list in memory.  json.load raises for a file of length 0.
LegacyRead(p) ==
    /\ pc[p] = "read_locked"
    /\ IF dataFile.kind = "list"
          THEN /\ dialogues' = [dialogues EXCEPT ![p] = Append(dataFile.items, p)]
               /\ pc' = [pc EXCEPT ![p] = "write_open"]
               /\ UNCHANGED ret
          ELSE /\ ret' = [ret EXCEPT ![p] =
                             Ret("update_memory", p, "JSONDecodeError", <<>>,
                                 0, <<0, 0>>, <<>>)]
               /\ pc' = [pc EXCEPT ![p] = "done"]
               /\ UNCHANGED dialogues
    /\ UNCHANGED <<op, lockVars, awVars, walFile, now, entry, wal_data,
                   appended, dataFile, otherVars>>

\* _write_json line 59 with _locked_file line 32: open(path, "w") empties
\* the file, before any lock is asked for.
LegacyWriteOpen(p) ==
    /\ pc[p] = "write_open"
    /\ dataFile' = DataEmpty
    /\ pc' = [pc EXCEPT ![p] = "write_lock"]
    /\ UNCHANGED <<op, lockVars, awVars, walVars, dialogues, otherVars>>

\* _locked_file line 33 in _write_json.
LegacyWriteLock(p) ==
    /\ pc[p] = "write_lock"
    /\ LegacyHolders = {}
    /\ pc' = [pc EXCEPT ![p] = "write_locked"]
    /\ UNCHANGED <<op, lockVars, awVars, walVars, storeVars, otherVars>>

\* _write_json line 60 and _locked_file lines 36-39: json.dump of the list
\* in memory, flush, fsync, unlock; update_memory returns.
LegacyWrite(p) ==
    /\ pc[p] = "write_locked"
    /\ dataFile' = DataList(dialogues[p])
    /\ ret' = [ret EXCEPT ![p] =
                  Ret("update_memory", p, "ok", <<>>, 0, <<0, 0>>, <<>>)]
    /\ pc' = [pc EXCEPT ![p] = "done"]
    /\ UNCHANGED <<op, lockVars, awVars, walFile, now, entry, wal_data,
                   appended, dialogues, otherVars>>

\* The segment file as the repository ships it, with an empty list.
InitLegacy ==
    /\ pc = [p \in Procs |-> "idle"]
    /\ op = [p \in Procs |-> "none"]
    /\ LockInit
    /\ AwUnused
    /\ WalUnused
    /\ dataFile = DataList(<<>>)
    /\ dialogues = [p \in Procs |-> <<>>]
    /\ OtherUnused

NextLegacy ==
    \/ \E p \in Procs : LegacyBegin(p)
    \/ \E p \in Procs : LegacyReadLock(p)
    \/ \E p \in Procs : LegacyRead(p)
    \/ \E p \in Procs : LegacyWriteOpen(p)
    \/ \E p \in Procs : LegacyWriteLock(p)
    \/ \E p \in Procs : LegacyWrite(p)

SpecLegacy == InitLegacy /\ [][NextLegacy]_vars

\* The entries in the list of the segment file.
SegmentEntries == {dataFile.items[k] : k \in 1..Len(dataFile.items)}

\* C32: when every update_memory call has returned normally, the segment
\* file holds the entry of every call.
C32_NoClobber ==
    (\A p \in Procs : pc[p] = "done" /\ ret[p].status = "ok")
       => (\A p \in Procs : p \in SegmentEntries)

(***************************************************************************)
(* SpecLockFd: FileLock (src/src/jojiai/file_lock.py lines 31-91) with the *)
(* descriptors it opens.  Each locker owns one FileLock object on the same *)
(* path.  fdTable holds the open file descriptions: who opened each, the   *)
(* inode it refers to and whether it holds the flock.  A flock belongs to  *)
(* the open file description: two descriptions on one inode conflict,      *)
(* also inside one process, and closing a description drops its flock.     *)
(* lockDesc[p] is self.lock_fd of the object of p (0 for None), pidIn[i]   *)
(* the content of inode i while the path names it (0 for the empty file,   *)
(* else the PID written).                                                  *)
(* A descriptor that is never closed stays open: no process exits.         *)
(***************************************************************************)

Lockers == {1, 2}

\* The lock path all the lockers use.
FdPath == DataLock

FreeFds == {d \in Fds : fdTable[d].owner = 0}

\* os.open returns the lowest descriptor not in use.
LowestFd == CHOOSE d \in FreeFds : \A e \in FreeFds : d <= e

\* The open file descriptions of table t on inode i.
OpenOn(t, i) == {d \in Fds : t[d].owner # 0 /\ t[d].ino = i}

\* Inodes that no path and no descriptor refers to.
FreeInodes == {i \in Inodes : lockFile[FdPath] # i /\ OpenOn(fdTable, i) = {}}

LowestInode == CHOOSE i \in FreeInodes : \A j \in FreeInodes : i <= j

\* The descriptions other than d that hold the flock of the inode of d.
FlockedElsewhere(d) ==
    {e \in OpenOn(fdTable, fdTable[d].ino) : e # d /\ fdTable[e].flock}

\* os.close(d) for the descriptor in self.lock_fd; nothing when it is None.
CloseFd(t, d) == IF d = 0 THEN t ELSE [t EXCEPT ![d] = ClosedFd]

\* Only the file the path names can be read: the descriptors are O_WRONLY,
\* so what an unlinked inode holds is seen by nobody and is not recorded.
Forget(pid, path) == [i \in Inodes |-> IF i = path THEN pid[i] ELSE 0]

AcquireRet(p, st) == Ret("acquire", p, st, <<>>, 0, <<0, 0>>, <<>>)

\* What an SpecLockFd step leaves alone besides what it names.
fdFrame ==
    <<cur, lock_fd, flockBy, awVars, walFile, now, entry, wal_data, appended,
      storeVars, retry, timedVars, targetDir, backupVars, config, stop_flush,
      stop_backup>>

\* acquire() is called, lines 41-43, on an object that holds nothing or on
\* one that holds the lock; the timeout is positive, the loop is entered.
FdAcquire(p) ==
    /\ p \in Lockers
    /\ pc[p] \in {"idle", "held"}
    /\ pc' = [pc EXCEPT ![p] = "acq_open"]
    /\ UNCHANGED <<op, ret, lockFile, fdVars, fdFrame>>

\* Line 46: self.lock_fd = os.open(lock_file, O_CREAT | O_WRONLY | O_TRUNC).
\* The file is created when the path is absent and emptied when it exists;
\* the new descriptor replaces what self.lock_fd held, which is not closed.
FdOpen(p) ==
    /\ pc[p] = "acq_open"
    /\ FreeFds # {}
    /\ lockFile[FdPath] = 0 => FreeInodes # {}
    /\ LET d == LowestFd
           i == IF lockFile[FdPath] # 0 THEN lockFile[FdPath] ELSE LowestInode
       IN  /\ lockFile' = [lockFile EXCEPT ![FdPath] = i]
           /\ pidIn' = [pidIn EXCEPT ![i] = 0]
           /\ fdTable' = [fdTable EXCEPT ![d] = [owner |-> p, ino |-> i,
                                                flock |-> FALSE]]
           /\ lockDesc' = [lockDesc EXCEPT ![p] = d]
    /\ pc' = [pc EXCEPT ![p] = "acq_flock"]
    /\ UNCHANGED <<op, ret, fdFrame>>

\* Lines 57-67, the else branch: an OSError whose errno is not EAGAIN or
\* EACCES.  The descriptor in self.lock_fd, if any, is closed, lock_fd is
\* set to None and FileOperationError is raised.
OtherError(p) ==
    /\ fdTable' = CloseFd(fdTable, lockDesc[p])
    /\ UNCHANGED pidIn
    /\ lockDesc' = [lockDesc EXCEPT ![p] = 0]
    /\ ret' = [ret EXCEPT ![p] = AcquireRet(p, "FileOperationError")]
    /\ pc' = [pc EXCEPT ![p] = "failed"]
    /\ UNCHANGED <<op, lockFile, fdFrame>>

\* os.open raises such an error: EMFILE, no descriptor is free.
FdOpenFail(p) ==
    /\ pc[p] = "acq_open"
    /\ FreeFds = {}
    /\ OtherError(p)

\* Line 49: flock(LOCK_EX | LOCK_NB) succeeds: no other open file
\* description holds the flock of the inode.
FdFlockGranted(p) ==
    /\ pc[p] = "acq_flock"
    /\ FlockedElsewhere(lockDesc[p]) = {}
    /\ fdTable' = [fdTable EXCEPT ![lockDesc[p]].flock = TRUE]
    /\ pc' = [pc EXCEPT ![p] = "acq_write"]
    /\ UNCHANGED <<op, ret, lockFile, lockDesc, pidIn, fdFrame>>

\* Lines 49 and 57-61: flock raises EAGAIN; sleep(0.1) and continue.
FdFlockBusy(p) ==
    /\ pc[p] = "acq_flock"
    /\ FlockedElsewhere(lockDesc[p]) # {}
    /\ pc' = [pc EXCEPT ![p] = "acq_sleep"]
    /\ UNCHANGED <<op, ret, lockFile, fdVars, fdFrame>>

\* flock raises another OSError (tests/test_file_lock.py lines 107-129).
FdFlockFail(p) ==
    /\ pc[p] = "acq_flock"
    /\ OtherError(p)

\* Lines 52-56: the PID is written and synced; acquire returns True.
FdWritePid(p) ==
    /\ pc[p] = "acq_write"
    /\ pidIn' = Forget([pidIn EXCEPT ![fdTable[lockDesc[p]].ino] = p],
                       lockFile[FdPath])
    /\ ret' = [ret EXCEPT ![p] = AcquireRet(p, "ok")]
    /\ pc' = [pc EXCEPT ![p] = "held"]
    /\ UNCHANGED <<op, lockFile, fdTable, lockDesc, fdFrame>>

\* os.write or os.fsync raises an OSError.
FdWriteFail(p) ==
    /\ pc[p] = "acq_write"
    /\ OtherError(p)

\* Line 43 after a sleep: the timeout has not passed.
FdRetry(p) ==
    /\ pc[p] = "acq_sleep"
    /\ pc' = [pc EXCEPT ![p] = "acq_open"]
    /\ UNCHANGED <<op, ret, lockFile, fdVars, fdFrame>>

\* Lines 43 and 69-73: the timeout has passed; the descriptor in
\* self.lock_fd is closed, lock_fd is set to None, ConcurrencyError.
FdTimeout(p) ==
    /\ pc[p] = "acq_sleep"
    /\ fdTable' = CloseFd(fdTable, lockDesc[p])
    /\ UNCHANGED pidIn
    /\ lockDesc' = [lockDesc EXCEPT ![p] = 0]
    /\ ret' = [ret EXCEPT ![p] = AcquireRet(p, "ConcurrencyError")]
    /\ pc' = [pc EXCEPT ![p] = "failed"]
    /\ UNCHANGED <<op, lockFile, fdFrame>>

\* release(), lines 75-80, after acquire returned or raised: nothing when
\* lock_fd is None; else flock(LOCK_UN), os.close, lock_fd = None.  The
\* outcome of the acquire is remembered until here.
FdRelease(p) ==
    /\ p \in Lockers
    /\ pc[p] \in {"held", "failed"}
    /\ fdTable' = CloseFd(fdTable, lockDesc[p])
    /\ UNCHANGED pidIn
    /\ lockDesc' = [lockDesc EXCEPT ![p] = 0]
    /\ pc' = [pc EXCEPT ![p] = IF lockDesc[p] = 0 THEN "idle" ELSE "rel_unlink"]
    /\ ret' = [ret EXCEPT ![p] = NoRet]
    /\ UNCHANGED <<op, lockFile, fdFrame>>

\* Lines 82-86: os.unlink(lock_file), an OSError of it ignored.
FdUnlink(p) ==
    /\ pc[p] = "rel_unlink"
    /\ lockFile' = [lockFile EXCEPT ![FdPath] = 0]
    /\ pidIn' = Forget(pidIn, 0)
    /\ pc' = [pc EXCEPT ![p] = "idle"]
    /\ UNCHANGED <<op, ret, fdTable, lockDesc, fdFrame>>

\* No lock file, no descriptor open, every FileLock constructed (lines
\* 27-29: lock_fd = None).
InitLockFd ==
    /\ pc = [p \in Procs |-> "idle"]
    /\ op = [p \in Procs |-> "none"]
    /\ LockInit
    /\ AwUnused
    /\ WalUnused
    /\ StoreUnused
    /\ OtherUnused

NextLockFd ==
    \/ \E p \in Lockers : FdAcquire(p)
    \/ \E p \in Lockers : FdOpen(p)
    \/ \E p \in Lockers : FdOpenFail(p)
    \/ \E p \in Lockers : FdFlockGranted(p)
    \/ \E p \in Lockers : FdFlockBusy(p)
    \/ \E p \in Lockers : FdFlockFail(p)
    \/ \E p \in Lockers : FdWritePid(p)
    \/ \E p \in Lockers : FdWriteFail(p)
    \/ \E p \in Lockers : FdRetry(p)
    \/ \E p \in Lockers : FdTimeout(p)
    \/ \E p \in Lockers : FdRelease(p)
    \/ \E p \in Lockers : FdUnlink(p)

SpecLockFd == InitLockFd /\ [][NextLockFd]_vars

\* The descriptors locker p has open.
OwnedFds(p) == {d \in Fds : fdTable[d].owner = p}

\* Locker p holds the flock through some descriptor of its own.
HoldsFlock(p) == \E d \in OwnedFds(p) : fdTable[d].flock

\* C33: after an acquire() that ended with FileOperationError, raised for
\* an OS error other than EAGAIN and EACCES, the FileLock has no descriptor
\* (lock_fd is None) and its owner holds no flock on the lock file.
C33_OtherErrorLeavesNothing ==
    \A p \in Lockers :
       (pc[p] = "failed" /\ ret[p].status = "FileOperationError")
          => (lockDesc[p] = 0 /\ ~HoldsFlock(p))

\* C34: while a locker holds the lock (its acquire has returned and its
\* descriptor holds the flock), the lock file exists and its content is the
\* PID of that locker.
C34_ContentIsHolderPid ==
    \A p \in Lockers :
       (pc[p] = "held" /\ lockDesc[p] # 0 /\ fdTable[lockDesc[p]].flock)
          => (lockFile[FdPath] # 0 /\ pidIn[lockFile[FdPath]] = p)

\* C35: when no locker is inside acquire or release and no descriptor holds
\* the flock, there is no lock file.
C35_AbsentWhenUnheld ==
    ((\A p \in Lockers : pc[p] \in {"idle", "failed"})
        /\ (\A d \in Fds : ~fdTable[d].flock))
       => lockFile[FdPath] = 0

\* C37: when acquire() has returned, the only descriptor its caller has
\* open is the one in lock_fd, and when it has raised, the caller has none
\* open.
C37_DescriptorsClosed ==
    \A p \in Lockers :
       /\ pc[p] = "held" => OwnedFds(p) \subseteq {lockDesc[p]}
       /\ pc[p] = "failed" => OwnedFds(p) = {}

\* C38: a release() that follows an acquire() of the same object, returned
\* or raised, leaves the owner of the object without any flock on the lock
\* file.
C38_ReleaseFrees ==
    [][\A p \in Lockers :
          (pc[p] \in {"held", "failed"} /\ pc'[p] \in {"idle", "rel_unlink"})
             => ~HoldsFlock(p)']_vars

(***************************************************************************)
(* SpecLockTimed: contenders on one lock path with explicit time.  Time is *)
(* counted in poll intervals, the 0.1 s of time.sleep at file_lock.py line *)
(* 60: every step of acquire and release other than the sleep takes no     *)
(* time, a sleep lasts one interval, and a holder stays in its critical    *)
(* section for at most MaxHold intervals.  Each contender runs             *)
(*     with FileLock(path, timeout): <critical section>                    *)
(* once.                                                                   *)
(***************************************************************************)
Timed == {1, 2, 3}

MaxHold == 1

MinTimeout == 1

\* The longest time the other contenders can hold the lock in total.
OthersHold == (Cardinality(Timed) - 1) * MaxHold

\* A timeout just above the others' total hold time, and one that is above
\* it by one poll interval per other contender.
ShortTimeout == OthersHold + 1

LongTimeout == OthersHold + (Cardinality(Timed) - 1) + 1

Timeouts == {MinTimeout, ShortTimeout, LongTimeout}

LoopContinuesInclusive(elapsed, limit) == elapsed <= limit

\* FileLock.acquire, line 42: while time.time() - start_time < self.timeout.
LoopContinues(elapsed, limit) == elapsed < limit

\* FileLock.__enter__ with the clock: start_time is taken (line 40) and the
\* loop is entered, the timeout being positive.
TimedEnter(p) ==
    /\ op[p] = "timed"
    /\ pc[p] = "idle"
    /\ LoopContinues(0, timeout[p])
    /\ waited' = [waited EXCEPT ![p] = 0]
    /\ pc' = [pc EXCEPT ![p] = "acq_open"]
    /\ UNCHANGED <<op, lockVars, awVars, walVars, storeVars, retry, timeout,
                   held, targetDir, restVars>>

\* One poll interval passes.  Steps that take no time come first: time
\* advances only when every contender is asleep in acquire, inside its
\* critical section with hold time left, or not running.  Every sleeper wakes
\* up at the loop test and every holder has held for one interval more.
TimedTick ==
    /\ \A p \in Timed :
          /\ pc[p] \in {"idle", "acq_sleep", "acquired", "acq_timeout",
                        "released"}
          /\ (pc[p] = "acquired") => (held[p] < MaxHold)
    /\ \E p \in Timed : pc[p] \in {"acq_sleep", "acquired"}
    /\ waited' = [p \in Procs |->
                     IF p \in Timed /\ pc[p] = "acq_sleep"
                        THEN waited[p] + 1 ELSE waited[p]]
    /\ held' = [p \in Procs |->
                   IF p \in Timed /\ pc[p] = "acquired"
                      THEN held[p] + 1 ELSE held[p]]
    /\ pc' = [p \in Procs |->
                 IF p \in Timed /\ pc[p] = "acq_sleep"
                    THEN "acq_check" ELSE pc[p]]
    /\ UNCHANGED <<op, lockVars, awVars, walVars, storeVars, retry, timeout,
                   targetDir, restVars>>

\* FileLock.acquire, line 42 after a sleep: the timeout has not elapsed, poll
\* again.
PollRetry(p) ==
    /\ pc[p] = "acq_check"
    /\ LoopContinues(waited[p], timeout[p])
    /\ pc' = [pc EXCEPT ![p] = "acq_open"]
    /\ UNCHANGED <<lockVars, notLock>>

\* FileLock.acquire, lines 42 and 69-73 after a sleep: the timeout has
\* elapsed; close the descriptor, reset lock_fd, raise ConcurrencyError.
PollTimeout(p) ==
    /\ pc[p] = "acq_check"
    /\ ~LoopContinues(waited[p], timeout[p])
    /\ lock_fd' = [lock_fd EXCEPT ![p] = 0]
    /\ pc' = [pc EXCEPT ![p] = "acq_timeout"]
    /\ UNCHANGED <<cur, lockFile, flockBy, notLock>>

\* FileLock.__exit__: the holder leaves its critical section, at any time
\* within its hold time, and calls release().
TimedExit(p) ==
    /\ op[p] = "timed"
    /\ pc[p] = "acquired"
    /\ pc' = [pc EXCEPT ![p] = "rel_unlock"]
    /\ UNCHANGED <<lockVars, notLock>>

InitLockTimed ==
    /\ pc = [p \in Procs |-> "idle"]
    /\ op = [p \in Procs |-> IF p \in Timed THEN "timed" ELSE "none"]
    /\ LockInit
    /\ AwUnused
    /\ WalUnused
    /\ StoreUnused
    /\ retry = [p \in Procs |-> NoRetry]
    /\ waited = [p \in Procs |-> 0]
    /\ held = [p \in Procs |-> 0]
    /\ timeout \in [Procs -> Timeouts \cup {0}]
    /\ \A p \in Procs : (timeout[p] = 0) <=> (p \notin Timed)
    \* the contenders run the same code: they are numbered by timeout
    /\ \A p, q \in Timed : (p < q) => (timeout[p] <= timeout[q])
    /\ targetDir = [f \in Files |-> DataAbsent]
    /\ RestUnused

NextLockTimed ==
    \/ TimedTick
    \/ \E p \in Timed :
        \/ TimedEnter(p)
        \/ AcquireOpen(p)
        \/ AcquireFlock(p)
        \/ AcquireBusy(p)
        \/ PollRetry(p)
        \/ PollTimeout(p)
        \/ TimedExit(p)
        \/ ReleaseUnlock(p)
        \/ ReleaseClose(p)
        \/ ReleaseUnlink(p)

\* The contenders are scheduled and the clock advances: a behaviour does not
\* stop while a step is possible.
SpecLockTimed ==
    InitLockTimed /\ [][NextLockTimed]_vars /\ WF_vars(NextLockTimed)

\* Contenders inside acquire().
Acquiring(p) == pc[p] \in {"acq_open", "acq_flock", "acq_sleep", "acq_check"}

EnoughTimeout == OthersHold + (Cardinality(Timed) - 1)

====
